---- MODULE Spec2Model ----
(***************************************************************************)
(* State-machine model of the recipe-app data layer: the categories        *)
(* forest (models/category.js), the ordered instruction and ingredient     *)
(* collections of a recipe (models/instruction.js, models/ingredient.js),  *)
(* the two unit measures of an ingredient and the recipe row with its      *)
(* favorite flag (models/recipe.js), over the tables of the SQL schema.    *)
(* Every model method is one atomic action: the node process issues the    *)
(* queries of one call over a single pg Client, in program order.  The     *)
(* methods whose concurrent runs are studied (toggleFavorite, create and   *)
(* the array update of instructions) also run query by query, as calls.    *)
(***************************************************************************)
EXTENDS Integers, Sequences, FiniteSets, TLC

VARIABLES
  users,               \* table users: set of usernames
  categories,          \* table categories: id -> [username, label, parentId]
  nextCatId,           \* next value of the SERIAL categories.id
  recipes,             \* table recipes: id -> [username, title, isFavorite]
  nextRecipeId,        \* next value of the SERIAL recipes.id
  recipes_categories,  \* table recipes_categories: set of <<recipeId, categoryId>>
  instructions,        \* table instructions: id -> [recipeId, ordinal, step]
  nextInstructionId,   \* next value of the SERIAL instructions.id
  ingredients,         \* table ingredients: id -> [recipeId, label, baseFood, ordinal]
  nextIngredientId,    \* next value of the SERIAL ingredients.id
  ingredient_measures, \* table ingredient_measures: <<ingredientId, unitType>> -> [amount, unit]
  ingredient_amounts,  \* columns us_amount, metric_amount of ingredients: id -> [usAmount, metricAmount]
  result,              \* what the last call did: its name, arguments and outcome
  calls                \* the calls in flight: call -> its position and local variables

vars == <<users, categories, nextCatId, recipes, nextRecipeId, recipes_categories,
          instructions, nextInstructionId, ingredients, nextIngredientId,
          ingredient_measures, ingredient_amounts, result, calls>>

categoryVars == <<users, categories, nextCatId>>
recipeVars == <<recipes, nextRecipeId>>
instructionVars == <<instructions, nextInstructionId>>
ingredientVars == <<ingredients, nextIngredientId, ingredient_measures, ingredient_amounts>>

(***************************************************************************)
(* Values                                                                  *)
(***************************************************************************)

\* SQL NULL in an integer column (SERIAL ids start at 1)
NULL == 0

\* SQL NULL in a text column
NoText == "null"

\* a key that the payload does not carry (text and integer fields)
Undefined == "undefined"

Absent == -1

\* the users of the test fixture, in insertion order
UserSeq == <<"u1", "u2">>

Usernames == {UserSeq[i] : i \in DOMAIN UserSeq}

\* Category.defaultCategories, in the order getDefaultCategoryIds resolves them
defaultCategories == <<"cuisines", "diets", "courses", "occasions">>

DefaultLabels == {defaultCategories[i] : i \in DOMAIN defaultCategories}

\* the empty table
EmptyTable == [i \in {} |-> NULL]

\* a table without the rows whose key is in gone
Without(table, gone) == [k \in (DOMAIN table) \ gone |-> table[k]]

\* the outcome record every action leaves in result
Outcome(op, status, id, info) ==
  [op |-> op, status |-> status, id |-> id, info |-> info]

\* how many category ids a run may allocate
MaxCatId == 10

\* labels a caller passes to Category.create / Category.update
InputLabels == {"cuisines", "italian"}

(***************************************************************************)
(* Schema: users and the trigger that seeds the default root categories    *)
(***************************************************************************)

\* AFTER INSERT ON users: four root rows, one per default label
trigger_set_default_categories(cats, next, username) ==
  cats @@ [i \in next .. (next + Len(defaultCategories) - 1) |->
             [username |-> username,
              label |-> defaultCategories[i - next + 1],
              parentId |-> NULL]]

RECURSIVE SeedUsers(_)
\* the categories table after the first n users were inserted
SeedUsers(n) ==
  IF n = 0 THEN EmptyTable
  ELSE trigger_set_default_categories(SeedUsers(n - 1),
                                      (n - 1) * Len(defaultCategories) + 1,
                                      UserSeq[n])

(***************************************************************************)
(* Category                                                                *)
(***************************************************************************)

\* ON DELETE CASCADE over categories.parent_id: id and everything below it
RECURSIVE CascadeClosure(_, _)
CascadeClosure(cats, S) ==
  LET S2 == S \cup {c \in DOMAIN cats : cats[c].parentId \in S}
  IN IF S2 = S THEN S ELSE CascadeClosure(cats, S2)

\* the rows SELECT ... WHERE parent_id = $1 AND label = $2 returns; a NULL
\* parameter matches no row (parent_id = NULL is never true)
SiblingsWithLabel(cats, parentId, label) ==
  {c \in DOMAIN cats : /\ parentId # NULL
                       /\ cats[c].parentId = parentId
                       /\ cats[c].label = label}

\* Category.create(username, { label, parentId }): status is the error the
\* call throws, or "ok" when its promise resolves, and returned is the kind
\* of value it then resolves with
CategoryCreateOutcome(cats, next, username, label, parentId) ==
  IF parentId # NULL /\ parentId \notin DOMAIN cats
    THEN [status |-> "NotFound", returned |-> Undefined,
          categories |-> cats, nextCatId |-> next]
  ELSE IF parentId # NULL /\ cats[parentId].username # username
    \* return new UnauthorizedError(...): the error object is the value of
    \* the call, nothing is thrown and nothing is inserted
    THEN [status |-> "ok", returned |-> "UnauthorizedError",
          categories |-> cats, nextCatId |-> next]
  ELSE IF SiblingsWithLabel(cats, parentId, label) # {}
    THEN [status |-> "BadRequest", returned |-> Undefined,
          categories |-> cats, nextCatId |-> next]
  ELSE [status |-> "ok", returned |-> "category",
        categories |-> cats @@ (next :> [username |-> username,
                                         label |-> label,
                                         parentId |-> parentId]),
        nextCatId |-> next + 1]

\* the default-root test with the label compared to the first default only
IsDefaultRoot_FirstLabelOnly(cats, id) ==
  /\ id \in DOMAIN cats
  /\ cats[id].label = defaultCategories[1]
  /\ cats[id].parentId = NULL

\* the default-root test of Category.update and Category.remove
IsDefaultRoot(cats, id) ==
  /\ id \in DOMAIN cats
  /\ cats[id].label \in DefaultLabels
  /\ cats[id].parentId = NULL

\* the rows of SELECT id FROM categories WHERE username = $1 AND label = $2
\* AND parent_id IS NULL
DefaultRootRows(cats, username, label) ==
  {c \in DOMAIN cats : /\ cats[c].username = username
                       /\ cats[c].label = label
                       /\ cats[c].parentId = NULL}

\* Category.getDefaultCategoryIds(username): the id of rows[0] of each of the
\* four queries, in the order of defaultCategories; the query has no ORDER BY,
\* so with several rows any of them can come first: the set of possible
\* answers (empty when a query has no row and rows[0].id throws)
getDefaultCategoryIds(cats, username) ==
  LET roots == UNION {DefaultRootRows(cats, username, defaultCategories[i]) :
                        i \in DOMAIN defaultCategories}
  IN {ids \in [DOMAIN defaultCategories -> roots] :
        \A i \in DOMAIN defaultCategories :
          ids[i] \in DefaultRootRows(cats, username, defaultCategories[i])}

\* Category.update(username, id, data); data.label = Undefined and
\* data.parentId = Absent stand for a payload without that key
CategoryUpdateOutcome(cats, username, id, data) ==
  IF id \notin DOMAIN cats \/ cats[id].username # username
    THEN [status |-> "NotFound", categories |-> cats]
  ELSE IF IsDefaultRoot(cats, id)
    THEN [status |-> "Forbidden", categories |-> cats]
  ELSE
    LET currLabel == cats[id].label
        currParentId == cats[id].parentId
        \* label ? label : currLabel
        labelToCheck == IF data.label # Undefined THEN data.label ELSE currLabel
        \* parentId ? parentId : currParentId (null and undefined are falsy)
        parentIdToCheck == IF data.parentId \notin {Absent, NULL}
                             THEN data.parentId ELSE currParentId
        \* sqlForPartialUpdate sets the column of every key of data
        newRow == [username |-> cats[id].username,
                   label |-> IF data.label # Undefined THEN data.label ELSE currLabel,
                   parentId |-> IF data.parentId # Absent THEN data.parentId
                                ELSE currParentId]
    IN IF SiblingsWithLabel(cats, parentIdToCheck, labelToCheck) # {}
         THEN [status |-> "BadRequest", categories |-> cats]
       ELSE IF data.label = Undefined /\ data.parentId = Absent
         \* sqlForPartialUpdate: "No data"
         THEN [status |-> "BadRequest", categories |-> cats]
       ELSE IF \/ newRow.parentId = id                       \* CHECK (parent_id <> id)
               \/ /\ newRow.parentId # NULL                  \* REFERENCES categories
                  /\ newRow.parentId \notin DOMAIN cats
               \/ \E c \in (DOMAIN cats) \ {id} :            \* UNIQUE (label, parent_id)
                    /\ newRow.parentId # NULL
                    /\ cats[c].parentId = newRow.parentId
                    /\ cats[c].label = newRow.label
         THEN [status |-> "DbError", categories |-> cats]
       ELSE [status |-> "ok", categories |-> [cats EXCEPT ![id] = newRow]]

\* Category.remove(username, id): the deleted ids, or none on failure
CategoryRemoveOutcome(cats, username, id) ==
  IF id \notin DOMAIN cats \/ cats[id].username # username
    THEN [status |-> "NotFound", removed |-> {}]
  ELSE IF IsDefaultRoot(cats, id)
    THEN [status |-> "Forbidden", removed |-> {}]
  ELSE [status |-> "ok", removed |-> CascadeClosure(cats, {id})]

\* the smallest id of a non-empty set of ids
MinId(S) == CHOOSE m \in S : \A x \in S : m <= x

RECURSIVE getCategorySubTree(_, _, _, _, _)
RECURSIVE SubTreesOf(_, _, _, _, _)

\* the loop of getCategorySubTree over category.children, here in ascending
\* id order (the query has no ORDER BY; every order visits the same children):
\* the subtrees of the children one after the other, or the failure of the
\* first child call that does not return
SubTreesOf(cats, username, id, children, callers) ==
  IF children = {} THEN [status |-> "ok", nodes |-> <<>>]
  ELSE LET first == MinId(children)
           child == getCategorySubTree(cats, username, first, id, callers)
           others == SubTreesOf(cats, username, id, children \ {first}, callers)
       IN IF child.status # "ok" THEN [status |-> child.status, nodes |-> <<>>]
          ELSE IF others.status # "ok" THEN [status |-> others.status, nodes |-> <<>>]
          ELSE [status |-> "ok", nodes |-> child.nodes \o others.nodes]

\* Category.getCategorySubTree(username, id), called for a child of under
\* (NULL for the outermost call) while the calls for the ids in callers are
\* in progress.  nodes lists the returned tree in preorder, each node with
\* the node whose children array holds it.  A call for an id whose own call
\* is in progress repeats that call's Category.get and loop without end:
\* status "Diverges"
getCategorySubTree(cats, username, id, under, callers) ==
  IF id \notin DOMAIN cats \/ cats[id].username # username
    THEN [status |-> "NotFound", nodes |-> <<>>]
  ELSE IF id \in callers
    THEN [status |-> "Diverges", nodes |-> <<>>]
  ELSE LET children == {c \in DOMAIN cats : cats[c].parentId = id}
           subTrees == SubTreesOf(cats, username, id, children, callers \cup {id})
       IN IF subTrees.status # "ok" THEN subTrees
          ELSE [status |-> "ok",
                nodes |-> <<[id |-> id, under |-> under]>> \o subTrees.nodes]

\* Category.addRecipe looking the category up by id alone, whoever owns it
CategoryAddRecipeOutcome_AnyOwner(cats, recs, links, username, categoryId, recipeId) ==
  IF recipeId \notin DOMAIN recs \/ recs[recipeId].username # username
    THEN [status |-> "NotFound", recipes_categories |-> links]
  ELSE IF categoryId \notin DOMAIN cats
    THEN [status |-> "NotFound", recipes_categories |-> links]
  ELSE IF <<recipeId, categoryId>> \in links
    THEN [status |-> "BadRequest", recipes_categories |-> links]
  ELSE [status |-> "ok", recipes_categories |-> links \cup {<<recipeId, categoryId>>}]

\* Category.addRecipe(username, categoryId, recipeId)
CategoryAddRecipeOutcome(cats, recs, links, username, categoryId, recipeId) ==
  IF recipeId \notin DOMAIN recs \/ recs[recipeId].username # username
    THEN [status |-> "NotFound", recipes_categories |-> links]
  ELSE IF categoryId \notin DOMAIN cats \/ cats[categoryId].username # username
    THEN [status |-> "NotFound", recipes_categories |-> links]
  ELSE IF <<recipeId, categoryId>> \in links
    THEN [status |-> "BadRequest", recipes_categories |-> links]
  ELSE [status |-> "ok", recipes_categories |-> links \cup {<<recipeId, categoryId>>}]

\* the first default root of the n-th user (every root of one owner is the
\* same kind of argument to create, update and remove)
FirstRootOf(n) == (n - 1) * Len(defaultCategories) + 1

\* ids a caller passes: one default root per user, every id allocated after
\* the seeding, and one id that was never allocated
CategoryIdArgs ==
  {FirstRootOf(n) : n \in DOMAIN UserSeq}
    \cup (Len(UserSeq) * Len(defaultCategories) + 1 .. MaxCatId + 1)

\* the payloads of Category.update: each key is absent or carries a value
UpdatePayloads ==
  [label : {Undefined} \cup InputLabels,
   parentId : {Absent, NULL} \cup CategoryIdArgs]

CategoryCreate ==
  \E username \in Usernames, label \in InputLabels,
     parentId \in {NULL} \cup CategoryIdArgs :
    /\ nextCatId <= MaxCatId
    /\ LET out == CategoryCreateOutcome(categories, nextCatId, username, label, parentId)
       IN /\ categories' = out.categories
          /\ nextCatId' = out.nextCatId
          /\ result' = Outcome("Category.create", out.status, NULL, <<out.returned>>)
    /\ UNCHANGED <<calls, users, recipeVars, recipes_categories, instructionVars, ingredientVars>>

CategoryUpdate ==
  \E username \in Usernames, id \in CategoryIdArgs, data \in UpdatePayloads :
    /\ LET out == CategoryUpdateOutcome(categories, username, id, data)
       IN /\ categories' = out.categories
          /\ result' = Outcome("Category.update", out.status, NULL, <<>>)
    /\ UNCHANGED <<calls, users, nextCatId, recipeVars, recipes_categories,
                   instructionVars, ingredientVars>>

CategoryRemove ==
  \E username \in Usernames, id \in CategoryIdArgs :
    /\ LET out == CategoryRemoveOutcome(categories, username, id)
       IN /\ categories' = Without(categories, out.removed)
          /\ recipes_categories' = {l \in recipes_categories : l[2] \notin out.removed}
          /\ result' = Outcome("Category.remove", out.status, NULL, <<>>)
    /\ UNCHANGED <<calls, users, nextCatId, recipeVars, instructionVars, ingredientVars>>

CategoryGetSubTree ==
  \E username \in Usernames, id \in CategoryIdArgs :
    /\ LET out == getCategorySubTree(categories, username, id, NULL, {})
       IN result' = Outcome("Category.getCategorySubTree", out.status, id,
                            [username |-> username, nodes |-> out.nodes])
    /\ UNCHANGED <<calls, users, categories, nextCatId, recipeVars, recipes_categories,
                   instructionVars, ingredientVars>>

\* Category.addRecipe for every user, the category ids of CategoryIdArgs and
\* every stored recipe id or one that was never allocated
CategoryAddRecipe ==
  \E username \in Usernames, categoryId \in CategoryIdArgs,
     recipeId \in (DOMAIN recipes) \cup {nextRecipeId} :
    /\ LET out == CategoryAddRecipeOutcome(categories, recipes, recipes_categories,
                                           username, categoryId, recipeId)
       IN /\ recipes_categories' = out.recipes_categories
          /\ result' = Outcome("Category.addRecipe", out.status, NULL, <<>>)
    /\ UNCHANGED <<calls, categoryVars, recipeVars, instructionVars, ingredientVars>>

(***************************************************************************)
(* Instruction                                                             *)
(***************************************************************************)

\* ids of the instruction rows of a recipe
InstructionRows(instrs, recipeId) ==
  {i \in DOMAIN instrs : instrs[i].recipeId = recipeId}

\* Instruction._getCount(recipeId)
Instruction_getCount(instrs, recipeId) ==
  Cardinality(InstructionRows(instrs, recipeId))

\* Instruction._createSingle: one INSERT with the given ordinal
Instruction_createSingle(instrs, next, recipeId, step, order) ==
  instrs @@ (next :> [recipeId |-> recipeId, ordinal |-> order, step |-> step])

\* _createMultiple giving the steps their ordinals from the last one backwards
Instruction_createMultiple_Reversed(instrs, next, recipeId, steps, startingOrder) ==
  instrs @@ [i \in next .. (next + Len(steps) - 1) |->
               [recipeId |-> recipeId,
                ordinal |-> (i - next) + startingOrder,
                step |-> steps[Len(steps) - (i - next)]]]

\* Instruction._createMultiple: one INSERT per step, in input order, the i-th
\* (from 0) with ordinal i + startingOrder
Instruction_createMultiple(instrs, next, recipeId, steps, startingOrder) ==
  instrs @@ [i \in next .. (next + Len(steps) - 1) |->
               [recipeId |-> recipeId,
                ordinal |-> (i - next) + startingOrder,
                step |-> steps[i - next + 1]]]

\* the rows an INSERT ... RETURNING id, recipe_id, ordinal, step gave, for
\* the n ids from next on
Instruction_returning(instrs, next, n) ==
  [k \in 1 .. n |-> [id |-> next + k - 1,
                     recipeId |-> instrs[next + k - 1].recipeId,
                     ordinal |-> instrs[next + k - 1].ordinal,
                     step |-> instrs[next + k - 1].step]]

\* Instruction.create starting at the current count instead of count + 1
InstructionCreateOutcome_FromCount(instrs, next, recipeId, steps, isString) ==
  LET stored == Instruction_createMultiple(instrs, next, recipeId, steps,
                                           Instruction_getCount(instrs, recipeId))
  IN [instructions |-> stored,
      nextInstructionId |-> next + Len(steps),
      returned |-> [isArray |-> ~isString,
                    rows |-> Instruction_returning(stored, next, Len(steps))]]

\* Instruction.create(recipeId, data): append after the current count; data
\* is a string (isString, the one step of steps) or the array steps, and the
\* call returns one row for a string and the array of rows for an array
InstructionCreateOutcome(instrs, next, recipeId, steps, isString) ==
  LET startingOrder == Instruction_getCount(instrs, recipeId) + 1
      stored == IF isString
                  THEN Instruction_createSingle(instrs, next, recipeId, steps[1],
                                                startingOrder)
                  ELSE Instruction_createMultiple(instrs, next, recipeId, steps,
                                                  startingOrder)
  IN [instructions |-> stored,
      nextInstructionId |-> next + Len(steps),
      returned |-> [isArray |-> ~isString,
                    rows |-> Instruction_returning(stored, next, Len(steps))]]

\* the answers SELECT id ... WHERE recipe_id = $1 ORDER BY ordinal can give:
\* every arrangement of the rows by ascending ordinal (rows with the same
\* ordinal come in any order)
OrderedIds(instrs, recipeId) ==
  LET rows == InstructionRows(instrs, recipeId)
      n == Cardinality(rows)
  IN {s \in [1 .. n -> rows] :
        /\ \A i, j \in 1 .. n : i # j => s[i] # s[j]
        /\ \A i, j \in 1 .. n : i < j => instrs[s[i]].ordinal <= instrs[s[j]].ordinal}

\* _removeOrCreate deleting the first -delta old instructions instead of the
\* last ones
Instruction_removeOrCreate_DeletesFirst(instrs, next, recipeId, items, oldInstructions) ==
  LET delta == Len(items) - Len(oldInstructions)
  IN IF delta > 0
       THEN LET created == InstructionCreateOutcome(
                             instrs, next, recipeId,
                             SubSeq(items, Len(items) - delta + 1, Len(items)), FALSE)
            IN [instructions |-> created.instructions,
                nextInstructionId |-> created.nextInstructionId,
                instructionsToUpdate |-> SubSeq(items, 1, Len(items) - delta)]
     ELSE IF delta < 0
       THEN [instructions |-> Without(instrs, {oldInstructions[k] : k \in 1 .. (-delta)}),
             nextInstructionId |-> next,
             instructionsToUpdate |-> items]
     ELSE [instructions |-> instrs,
           nextInstructionId |-> next,
           instructionsToUpdate |-> items]

\* Instruction._removeOrCreate(recipeId, instructions), given the answer
\* oldInstructions of its SELECT
Instruction_removeOrCreate(instrs, next, recipeId, items, oldInstructions) ==
  LET delta == Len(items) - Len(oldInstructions)
  IN IF delta > 0
       THEN LET created == InstructionCreateOutcome(
                             instrs, next, recipeId,
                             SubSeq(items, Len(items) - delta + 1, Len(items)), FALSE)
            IN [instructions |-> created.instructions,
                nextInstructionId |-> created.nextInstructionId,
                instructionsToUpdate |-> SubSeq(items, 1, Len(items) - delta)]
     ELSE IF delta < 0
       THEN LET instructionsToDelete ==
                  {oldInstructions[k] :
                     k \in (Len(oldInstructions) + delta + 1) .. Len(oldInstructions)}
            IN [instructions |-> Without(instrs, instructionsToDelete),
                nextInstructionId |-> next,
                instructionsToUpdate |-> items]
     ELSE [instructions |-> instrs,
           nextInstructionId |-> next,
           instructionsToUpdate |-> items]

\* Instruction._updateMultiple(recipeId, instructions): after _removeOrCreate,
\* UPDATE ... SET step = $1 WHERE recipe_id = $3 AND ordinal = i + 1 for the
\* i-th (from 0) step to update
InstructionUpdateMultipleOutcome(instrs, next, recipeId, items, oldInstructions) ==
  LET rc == Instruction_removeOrCreate(instrs, next, recipeId, items, oldInstructions)
      toUpdate == rc.instructionsToUpdate
  IN [instructions |->
        [i \in DOMAIN rc.instructions |->
           IF /\ rc.instructions[i].recipeId = recipeId
              /\ rc.instructions[i].ordinal \in 1 .. Len(toUpdate)
             THEN [rc.instructions[i] EXCEPT !.step = toUpdate[rc.instructions[i].ordinal]]
             ELSE rc.instructions[i]],
      nextInstructionId |-> rc.nextInstructionId]

\* Instruction.remove(id) closing the gap: the rows of the recipe after the
\* deleted one move up by one ordinal
InstructionRemoveOutcome_Renumbers(instrs, id) ==
  IF id \notin DOMAIN instrs
    THEN [status |-> "NotFound", instructions |-> instrs]
  ELSE [status |-> "ok",
        instructions |->
          [i \in (DOMAIN instrs) \ {id} |->
             IF /\ instrs[i].recipeId = instrs[id].recipeId
                /\ instrs[i].ordinal > instrs[id].ordinal
               THEN [instrs[i] EXCEPT !.ordinal = @ - 1]
             ELSE instrs[i]]]

\* Instruction.remove(id)
InstructionRemoveOutcome(instrs, id) ==
  IF id \notin DOMAIN instrs
    THEN [status |-> "NotFound", instructions |-> instrs]
  ELSE [status |-> "ok", instructions |-> Without(instrs, {id})]

\* how many instruction ids a run may allocate
MaxInstructionId == 4

\* how many ingredient ids a run may allocate
MaxIngredientId == 2

\* how many items one create or array update carries
MaxItems == 2

\* the instruction texts a caller passes
Steps == {"mix", "bake"}

\* the arrays of at most MaxItems elements of a set
Arrays(S) == UNION {[1 .. n -> S] : n \in 0 .. MaxItems}

\* Instruction.create with a string (one step) or an array of steps
InstructionCreate(texts) ==
  \E recipeId \in DOMAIN recipes, steps \in Arrays(texts), isString \in BOOLEAN :
    /\ isString => Len(steps) = 1
    /\ nextInstructionId + Len(steps) - 1 <= MaxInstructionId
    /\ LET out == InstructionCreateOutcome(instructions, nextInstructionId, recipeId,
                                           steps, isString)
       IN /\ instructions' = out.instructions
          /\ nextInstructionId' = out.nextInstructionId
          /\ result' = Outcome("Instruction.create", "ok", recipeId,
                               [data |-> steps, isString |-> isString,
                                returned |-> out.returned])
    /\ UNCHANGED <<calls, categoryVars, recipeVars, recipes_categories, ingredientVars>>

\* Instruction.update(recipeId, array)
InstructionUpdateMultiple(texts) ==
  \E recipeId \in DOMAIN recipes, items \in Arrays(texts) :
   \E oldInstructions \in OrderedIds(instructions, recipeId) :
    /\ nextInstructionId + Len(items) - Len(oldInstructions) - 1 <= MaxInstructionId
    /\ LET out == InstructionUpdateMultipleOutcome(instructions, nextInstructionId,
                                                   recipeId, items, oldInstructions)
       IN /\ instructions' = out.instructions
          /\ nextInstructionId' = out.nextInstructionId
          /\ result' = Outcome("Instruction.update", "ok", recipeId, items)
    /\ UNCHANGED <<calls, categoryVars, recipeVars, recipes_categories, ingredientVars>>

\* Instruction.remove(id), for every stored id and one that was never allocated
InstructionRemove ==
  \E id \in (DOMAIN instructions) \cup {MaxInstructionId + 1} :
    /\ LET out == InstructionRemoveOutcome(instructions, id)
       IN /\ instructions' = out.instructions
          /\ result' = Outcome("Instruction.remove", out.status,
                               IF id \in DOMAIN instructions
                                 THEN instructions[id].recipeId ELSE NULL,
                               <<>>)
    /\ UNCHANGED <<calls, categoryVars, recipeVars, recipes_categories, nextInstructionId,
                   ingredientVars>>

(***************************************************************************)
(* Ingredient                                                              *)
(***************************************************************************)

\* ids of the ingredient rows of a recipe
IngredientRows(ingrs, recipeId) ==
  {i \in DOMAIN ingrs : ingrs[i].recipeId = recipeId}

\* Ingredient._getCount(recipeId)
Ingredient_getCount(ingrs, recipeId) ==
  Cardinality(IngredientRows(ingrs, recipeId))

\* an INSERT INTO ingredient_measures succeeds when its rows meet
\* PRIMARY KEY (ingredient_id, unit_type) and CHECK (amount > 0)
MeasuresInsertable(ms) ==
  /\ \A i, j \in DOMAIN ms : i # j => ms[i].unitType # ms[j].unitType
  /\ \A i \in DOMAIN ms : ms[i].amount > 0

\* the ingredient_measures rows one INSERT adds for ingredient id
MeasureRowsOf(id, ms) ==
  [key \in {<<id, ms[k].unitType>> : k \in DOMAIN ms} |->
     LET k == CHOOSE k \in DOMAIN ms : ms[k].unitType = key[2]
     IN [amount |-> ms[k].amount, unit |-> ms[k].unit]]

RECURSIVE Ingredient_createMeasures(_, _, _, _)
\* Ingredient._createMeasures: one INSERT for each of the first n ingredients
\* that has measures; an INSERT that breaks a constraint adds nothing
Ingredient_createMeasures(measures, ingredientData, firstId, n) ==
  IF n = 0 THEN measures
  ELSE LET before == Ingredient_createMeasures(measures, ingredientData, firstId, n - 1)
           ms == ingredientData[n].measures
       IN IF MeasuresInsertable(ms)
            THEN before @@ MeasureRowsOf(firstId + n - 1, ms)
            ELSE before

\* Ingredient.create(recipeId, ingredientData): the rows get the ordinals
\* startingOrder + i in input order, then their measures are inserted
IngredientCreateOutcome(ingrs, next, measures, recipeId, ingredientData) ==
  LET startingOrder == Ingredient_getCount(ingrs, recipeId) + 1
      n == Len(ingredientData)
  IN [status |-> IF \A i \in 1 .. n : MeasuresInsertable(ingredientData[i].measures)
                   THEN "ok" ELSE "DbError",
      ingredients |->
        ingrs @@ [i \in next .. (next + n - 1) |->
                    [recipeId |-> recipeId,
                     label |-> ingredientData[i - next + 1].label,
                     \* baseFood ? baseFood : null
                     baseFood |-> IF ingredientData[i - next + 1].baseFood = Undefined
                                    THEN NoText
                                    ELSE ingredientData[i - next + 1].baseFood,
                     ordinal |-> startingOrder + (i - next)]],
      nextIngredientId |-> next + n,
      ingredient_measures |-> Ingredient_createMeasures(measures, ingredientData, next, n),
      \* the array of the inserted rows (their measures are left out here)
      returned |-> [isArray |-> TRUE,
                    rows |-> [k \in 1 .. n |->
                                [id |-> next + k - 1,
                                 recipeId |-> recipeId,
                                 label |-> ingredientData[k].label,
                                 ordinal |-> startingOrder + k - 1]]]]

\* _getUpdatedTargetFromSourceMeasure asking for the source unit as target
\* unit and writing the answer with that unit into the other row
Ingredient_getUpdatedTargetFromSourceMeasure_SourceUnit(measures, baseFood, ingredientId, sourceUnitType, sourceAmount, sourceUnit, reply) ==
  LET targetUnitType == IF sourceUnitType = "metric" THEN "us" ELSE "metric"
      target == <<ingredientId, targetUnitType>>
  IN IF target \notin DOMAIN measures
       THEN [status |-> "TypeError", ingredient_measures |-> measures, conversion |-> <<>>]
     ELSE
       LET call == <<baseFood, sourceAmount, sourceUnit, sourceUnit, reply>>
       IN IF reply = Absent \/ reply <= 0
            THEN [status |-> "DbError", ingredient_measures |-> measures,
                  conversion |-> call]
            ELSE [status |-> "ok",
                  ingredient_measures |->
                    [measures EXCEPT ![target] = [amount |-> reply, unit |-> sourceUnit]],
                  conversion |-> call]

\* _getUpdatedTargetFromSourceMeasure over an amount column that takes NULL
\* and has no CHECK: whatever getConversion returned is stored
Ingredient_getUpdatedTargetFromSourceMeasure_NullableAmount(measures, baseFood, ingredientId, sourceUnitType, sourceAmount, sourceUnit, reply) ==
  LET targetUnitType == IF sourceUnitType = "metric" THEN "us" ELSE "metric"
      target == <<ingredientId, targetUnitType>>
  IN IF target \notin DOMAIN measures
       THEN [status |-> "TypeError", ingredient_measures |-> measures, conversion |-> <<>>]
     ELSE [status |-> "ok",
           ingredient_measures |-> [measures EXCEPT ![target].amount = reply],
           conversion |-> <<baseFood, sourceAmount, sourceUnit, measures[target].unit,
                            reply>>]

\* Ingredient._getUpdatedTargetFromSourceMeasure: the other unit type's row
\* gets the amount getConversion returned; reply = Absent is a failed request
\* (getConversion logs the error and returns undefined, which the UPDATE
\* sends as NULL into a NOT NULL column with CHECK (amount > 0))
Ingredient_getUpdatedTargetFromSourceMeasure(measures, baseFood, ingredientId, sourceUnitType, sourceAmount, sourceUnit, reply) ==
  LET targetUnitType == IF sourceUnitType = "metric" THEN "us" ELSE "metric"
      target == <<ingredientId, targetUnitType>>
  IN IF target \notin DOMAIN measures
       \* destructuring rows[0] = undefined
       THEN [status |-> "TypeError", ingredient_measures |-> measures, conversion |-> <<>>]
     ELSE
       LET call == <<baseFood, sourceAmount, sourceUnit, measures[target].unit, reply>>
       IN IF reply = Absent \/ reply <= 0
            THEN [status |-> "DbError", ingredient_measures |-> measures,
                  conversion |-> call]
            ELSE [status |-> "ok",
                  ingredient_measures |-> [measures EXCEPT ![target].amount = reply],
                  conversion |-> call]

\* _getUpdatedMeasures whose UPDATE ingredient_measures has no ingredient_id
\* in its WHERE clause: every row of the unit type is written
Ingredient_getUpdatedMeasures_AnyIngredient(measures, measure, ingredient, id, reply) ==
  IF ~measure.given
    THEN [status |-> "ok", ingredient_measures |-> measures, conversion |-> <<>>]
  ELSE IF measure.unitType = Undefined
    THEN [status |-> "BadRequest", ingredient_measures |-> measures, conversion |-> <<>>]
  ELSE IF measure.amount = Absent /\ measure.unit = Undefined
    THEN [status |-> "BadRequest", ingredient_measures |-> measures, conversion |-> <<>>]
  ELSE IF <<id, measure.unitType>> \notin DOMAIN measures
    THEN [status |-> "NotFound", ingredient_measures |-> measures, conversion |-> <<>>]
  ELSE IF measure.amount # Absent /\ measure.amount <= 0
    THEN [status |-> "DbError", ingredient_measures |-> measures, conversion |-> <<>>]
  ELSE
    LET written(key) ==
          [amount |-> IF measure.amount # Absent THEN measure.amount
                      ELSE measures[key].amount,
           unit |-> IF measure.unit # Undefined THEN measure.unit
                    ELSE measures[key].unit]
        updated == [key \in DOMAIN measures |->
                      IF key[2] = measure.unitType THEN written(key) ELSE measures[key]]
        updatedMeasure1 == updated[<<id, measure.unitType>>]
    IN IF ingredient.baseFood # NoText
         THEN Ingredient_getUpdatedTargetFromSourceMeasure(
                updated, ingredient.baseFood, id, measure.unitType,
                updatedMeasure1.amount, updatedMeasure1.unit, reply)
         ELSE [status |-> "ok", ingredient_measures |-> updated, conversion |-> <<>>]

\* _getUpdatedMeasures taking the us measure when the payload names no unit
\* type
Ingredient_getUpdatedMeasures_DefaultUs(measures, measure, ingredient, id, reply) ==
  IF ~measure.given
    THEN [status |-> "ok", ingredient_measures |-> measures, conversion |-> <<>>]
  ELSE IF measure.amount = Absent /\ measure.unit = Undefined
    THEN [status |-> "BadRequest", ingredient_measures |-> measures, conversion |-> <<>>]
  ELSE
    LET unitType1 == IF measure.unitType = Undefined THEN "us" ELSE measure.unitType
        key == <<id, unitType1>>
    IN IF key \notin DOMAIN measures
         THEN [status |-> "NotFound", ingredient_measures |-> measures,
               conversion |-> <<>>]
       ELSE IF measure.amount # Absent /\ measure.amount <= 0
         THEN [status |-> "DbError", ingredient_measures |-> measures,
               conversion |-> <<>>]
       ELSE [status |-> "ok",
             ingredient_measures |->
               [measures EXCEPT ![key] =
                  [amount |-> IF measure.amount # Absent THEN measure.amount
                              ELSE measures[key].amount,
                   unit |-> IF measure.unit # Undefined THEN measure.unit
                            ELSE measures[key].unit]],
             conversion |-> <<>>]

\* Ingredient._getUpdatedMeasures(measure, ingredient), ingredient being the
\* row as _updateSingle left it
Ingredient_getUpdatedMeasures(measures, measure, ingredient, id, reply) ==
  IF ~measure.given
    THEN [status |-> "ok", ingredient_measures |-> measures, conversion |-> <<>>]
  ELSE IF measure.unitType = Undefined
    THEN [status |-> "BadRequest", ingredient_measures |-> measures, conversion |-> <<>>]
  ELSE IF measure.amount = Absent /\ measure.unit = Undefined
    \* sqlForPartialUpdate: "No data"
    THEN [status |-> "BadRequest", ingredient_measures |-> measures, conversion |-> <<>>]
  ELSE IF <<id, measure.unitType>> \notin DOMAIN measures
    THEN [status |-> "NotFound", ingredient_measures |-> measures, conversion |-> <<>>]
  ELSE IF measure.amount # Absent /\ measure.amount <= 0
    \* CHECK (amount > 0)
    THEN [status |-> "DbError", ingredient_measures |-> measures, conversion |-> <<>>]
  ELSE
    LET key == <<id, measure.unitType>>
        updatedMeasure1 ==
          [amount |-> IF measure.amount # Absent THEN measure.amount
                      ELSE measures[key].amount,
           unit |-> IF measure.unit # Undefined THEN measure.unit
                    ELSE measures[key].unit]
        updated == [measures EXCEPT ![key] = updatedMeasure1]
    IN IF ingredient.baseFood # NoText
         THEN Ingredient_getUpdatedTargetFromSourceMeasure(
                updated, ingredient.baseFood, id, measure.unitType,
                updatedMeasure1.amount, updatedMeasure1.unit, reply)
         ELSE [status |-> "ok", ingredient_measures |-> updated, conversion |-> <<>>]

\* Ingredient._updateSingle(data, id): the keys of data other than measure
\* are written first, then the measure is handled
IngredientUpdateSingleOutcome(ingrs, measures, data, id, reply) ==
  IF id \notin DOMAIN ingrs
    THEN [status |-> "NotFound", ingredients |-> ingrs,
          ingredient_measures |-> measures, conversion |-> <<>>]
  ELSE
    LET ingredient ==
          [recipeId |-> ingrs[id].recipeId,
           label |-> IF data.label # Undefined THEN data.label ELSE ingrs[id].label,
           baseFood |-> IF data.baseFood # Undefined THEN data.baseFood
                        ELSE ingrs[id].baseFood,
           ordinal |-> IF data.ordinal # Absent THEN data.ordinal ELSE ingrs[id].ordinal]
        m == Ingredient_getUpdatedMeasures(measures, data.measure, ingredient, id, reply)
    IN [status |-> m.status,
        ingredients |-> [ingrs EXCEPT ![id] = ingredient],
        ingredient_measures |-> m.ingredient_measures,
        conversion |-> m.conversion]

\* Ingredient.remove(id); ingredient_measures rows go with ON DELETE CASCADE
IngredientRemoveOutcome(ingrs, measures, id) ==
  IF id \notin DOMAIN ingrs
    THEN [status |-> "NotFound", ingredients |-> ingrs, ingredient_measures |-> measures]
  ELSE [status |-> "ok",
        ingredients |-> Without(ingrs, {id}),
        ingredient_measures |-> Without(measures, {k \in DOMAIN measures : k[1] = id})]

\* the amounts every ingredient payload of the model carries: Recipe.create
\* passes usAmount and metricAmount on with the label, and the INSERT stores
\* them
InsertedAmounts == [usAmount |-> 1, metricAmount |-> 1]

\* the columns us_amount and metric_amount of the rows of ingrs: a row that
\* was stored keeps its amounts, an inserted row has those of its payload,
\* and a deleted row takes its amounts with it
Ingredient_amountsOf(amounts, ingrs) ==
  [i \in DOMAIN ingrs |-> IF i \in DOMAIN amounts THEN amounts[i] ELSE InsertedAmounts]

(***************************************************************************)
(* Recipe                                                                  *)
(***************************************************************************)

\* the positions of labels whose SELECT id FROM categories WHERE parent_id = $1
\* AND label = $2 returns a row
PreexistingAt(cats, labels, parentId) ==
  {i \in DOMAIN labels : SiblingsWithLabel(cats, parentId, labels[i]) # {}}

RECURSIVE KeepAt(_, _)
\* Array.filter: the elements of seq whose position is in keep, in order
KeepAt(seq, keep) ==
  IF seq = <<>> THEN <<>>
  ELSE LET front == KeepAt(SubSeq(seq, 1, Len(seq) - 1), keep)
       IN IF Len(seq) \in keep THEN Append(front, seq[Len(seq)]) ELSE front

\* Recipe._addCategories(recipeId, categoryIds): one INSERT of all the pairs,
\* refused as a whole by PRIMARY KEY (recipe_id, category_id)
Recipe_addCategories(links, recipeId, categoryIds) ==
  LET pairs == {<<recipeId, categoryIds[i]>> : i \in DOMAIN categoryIds}
  IN IF categoryIds = <<>>
       THEN [status |-> "ok", recipes_categories |-> links]
     ELSE IF \/ Cardinality(pairs) # Len(categoryIds)
             \/ pairs \cap links # {}
       THEN [status |-> "DbError", recipes_categories |-> links]
     ELSE [status |-> "ok", recipes_categories |-> links \cup pairs]

\* _createAndAddCategories adding only the categories it created to the
\* recipe when it creates any
Recipe_createAndAddCategories_OnlyCreated(cats, next, links, recipeId, username, labels, parentId) ==
  IF labels = <<>>
    THEN [status |-> "ok", categories |-> cats, nextCatId |-> next,
          recipes_categories |-> links]
  ELSE
    LET toCreate == {i \in DOMAIN labels :
                       /\ \A c \in DOMAIN cats :
                            ~(cats[c].parentId = parentId /\ cats[c].label = labels[i])
                       /\ \A j \in 1 .. (i - 1) : labels[j] # labels[i]}
        n == Cardinality(toCreate)
        nth(k) == CHOOSE i \in toCreate : Cardinality({j \in toCreate : j < i}) = k - 1
        existing == {c \in DOMAIN cats :
                       /\ cats[c].parentId = parentId
                       /\ \E i \in DOMAIN labels : cats[c].label = labels[i]}
    IN [status |-> "ok",
        categories |-> cats @@ [c \in next .. (next + n - 1) |->
                                  [username |-> username,
                                   label |-> labels[nth(c - next + 1)],
                                   parentId |-> parentId]],
        nextCatId |-> next + n,
        recipes_categories |->
          links \cup {<<recipeId, c>> :
                        c \in IF n = 0 THEN existing ELSE next .. (next + n - 1)}]

\* Recipe._createAndAddCategories(recipeId, username, labels, parentId)
Recipe_createAndAddCategories(cats, next, links, recipeId, username, labels, parentId) ==
  IF labels = <<>>
    THEN [status |-> "ok", categories |-> cats, nextCatId |-> next,
          recipes_categories |-> links]
  ELSE
    LET pre == PreexistingAt(cats, labels, parentId)
        preexistingCatIds ==
          [i \in 1 .. Cardinality(pre) |->
             CHOOSE c \in SiblingsWithLabel(cats, parentId,
                                            KeepAt(labels, pre)[i]) : TRUE]
        labelsToCreateCats == KeepAt(labels, (DOMAIN labels) \ pre)
        n == Len(labelsToCreateCats)
    IN IF n = 0
         THEN LET added == Recipe_addCategories(links, recipeId, preexistingCatIds)
              IN [status |-> added.status, categories |-> cats, nextCatId |-> next,
                  recipes_categories |-> added.recipes_categories]
       ELSE IF \E i, j \in 1 .. n :
                 i # j /\ labelsToCreateCats[i] = labelsToCreateCats[j]
         \* UNIQUE (label, parent_id) refuses the INSERT
         THEN [status |-> "DbError", categories |-> cats, nextCatId |-> next,
               recipes_categories |-> links]
       ELSE
         LET created == cats @@ [c \in next .. (next + n - 1) |->
                                   [username |-> username,
                                    label |-> labelsToCreateCats[c - next + 1],
                                    parentId |-> parentId]]
             createdCategoryIds == [i \in 1 .. n |-> next + i - 1]
             added == Recipe_addCategories(links, recipeId,
                                           preexistingCatIds \o createdCategoryIds)
         IN [status |-> added.status, categories |-> created, nextCatId |-> next + n,
             recipes_categories |-> added.recipes_categories]

RECURSIVE Recipe_categorize(_, _, _, _, _, _, _, _)
\* the first n of the four _createAndAddCategories calls of Recipe.create,
\* lists[i] going under the default root defaultIds[i]; a call that fails
\* does not stop the others
Recipe_categorize(cats, next, links, recipeId, username, lists, defaultIds, n) ==
  IF n = 0
    THEN [status |-> "ok", categories |-> cats, nextCatId |-> next,
          recipes_categories |-> links]
  ELSE
    LET before == Recipe_categorize(cats, next, links, recipeId, username, lists,
                                    defaultIds, n - 1)
        this == Recipe_createAndAddCategories(
                  before.categories, before.nextCatId, before.recipes_categories,
                  recipeId, username, lists[n], defaultIds[n])
    IN [this EXCEPT !.status = IF before.status = "ok" THEN this.status
                               ELSE before.status]

\* the ingredient payload Recipe.create hands to Ingredient.create:
\* { label, usAmount, metricAmount, unitId }, so no baseFood and no measures
RecipeIngredientData(ingredientLabels) ==
  [i \in DOMAIN ingredientLabels |->
     [label |-> ingredientLabels[i], baseFood |-> Undefined, measures |-> <<>>]]

\* toggleFavorite writing TRUE instead of the negated flag
RecipeToggleFavoriteOutcome_SetTrue(recs, username, recipeId) ==
  IF recipeId \notin DOMAIN recs \/ recs[recipeId].username # username
    THEN [status |-> "NotFound", recipes |-> recs, isFavorite |-> FALSE]
  ELSE [status |-> "ok",
        recipes |-> [r \in DOMAIN recs |-> [recs[r] EXCEPT !.isFavorite = TRUE]],
        isFavorite |-> recs[recipeId].isFavorite]

\* Recipe.toggleFavorite(username, recipeId): the flag read from the row of
\* recipeId is negated and written by UPDATE recipes SET is_favorite = $1,
\* which has no WHERE clause
RecipeToggleFavoriteOutcome(recs, username, recipeId) ==
  IF recipeId \notin DOMAIN recs \/ recs[recipeId].username # username
    THEN [status |-> "NotFound", recipes |-> recs, isFavorite |-> FALSE]
  ELSE LET isFavorite == recs[recipeId].isFavorite
       IN [status |-> "ok",
           recipes |-> [r \in DOMAIN recs |-> [recs[r] EXCEPT !.isFavorite = ~isFavorite]],
           isFavorite |-> isFavorite]

\* Recipe.remove without the ON DELETE CASCADE of instructions.recipe_id
RecipeRemoveOutcome_InstructionsStay(recs, links, instrs, ingrs, measures, username, recipeId) ==
  IF recipeId \notin DOMAIN recs \/ recs[recipeId].username # username
    THEN [status |-> "NotFound", recipes |-> recs, recipes_categories |-> links,
          instructions |-> instrs, ingredients |-> ingrs,
          ingredient_measures |-> measures]
  ELSE LET gone == IngredientRows(ingrs, recipeId)
       IN [status |-> "ok",
           recipes |-> Without(recs, {recipeId}),
           recipes_categories |-> {l \in links : l[1] # recipeId},
           instructions |-> instrs,
           ingredients |-> Without(ingrs, gone),
           ingredient_measures |->
             Without(measures, {k \in DOMAIN measures : k[1] \in gone})]

\* Recipe.remove(username, recipeId): DELETE FROM recipes WHERE id = $1 AND
\* username = $2; the rows that reference the recipe go with ON DELETE
\* CASCADE, and the measures of its ingredients with them
RecipeRemoveOutcome(recs, links, instrs, ingrs, measures, username, recipeId) ==
  IF recipeId \notin DOMAIN recs \/ recs[recipeId].username # username
    THEN [status |-> "NotFound", recipes |-> recs, recipes_categories |-> links,
          instructions |-> instrs, ingredients |-> ingrs,
          ingredient_measures |-> measures]
  ELSE LET gone == IngredientRows(ingrs, recipeId)
       IN [status |-> "ok",
           recipes |-> Without(recs, {recipeId}),
           recipes_categories |-> {l \in links : l[1] # recipeId},
           instructions |-> Without(instrs, InstructionRows(instrs, recipeId)),
           ingredients |-> Without(ingrs, gone),
           ingredient_measures |->
             Without(measures, {k \in DOMAIN measures : k[1] \in gone})]

\* Recipe.get(username, recipeId): the row selected with id = $1 AND
\* username = $2, with the ids of its instructions and ingredients
RecipeGetOutcome(recs, instrs, ingrs, username, recipeId) ==
  IF recipeId \notin DOMAIN recs \/ recs[recipeId].username # username
    THEN [status |-> "NotFound", returned |-> [id |-> NULL, instructions |-> {},
                                               ingredients |-> {}]]
  ELSE [status |-> "ok",
        returned |-> [id |-> recipeId,
                      instructions |-> InstructionRows(instrs, recipeId),
                      ingredients |-> IngredientRows(ingrs, recipeId)]]

\* the rows of (VALUES ...) AS c that UPDATE ingredients ... FROM c WHERE
\* c.id = i.id can join to each stored row: one of the entries with its id
\* (with several, PostgreSQL uses any one of them)
Ingredient_updateAmountsPicks(amounts, entries) ==
  LET hit == {i \in DOMAIN amounts : \E k \in DOMAIN entries : entries[k].id = i}
  IN {pick \in [hit -> DOMAIN entries] : \A i \in hit : entries[pick[i]].id = i}

\* Ingredient.updateAmounts(ingredients): one UPDATE that sets us_amount and
\* metric_amount of every row whose id is the id of an entry; the statement
\* names no recipe.  CHECK (us_amount > 0) and CHECK (metric_amount > 0)
\* refuse the whole statement
Ingredient_updateAmounts(amounts, entries, pick) ==
  IF \E i \in DOMAIN pick : \/ entries[pick[i]].usAmount <= 0
                            \/ entries[pick[i]].metricAmount <= 0
    THEN [status |-> "DbError", ingredient_amounts |-> amounts]
  ELSE [status |-> "ok",
        ingredient_amounts |->
          [i \in DOMAIN amounts |->
             IF i \in DOMAIN pick
               THEN [usAmount |-> entries[pick[i]].usAmount,
                     metricAmount |-> entries[pick[i]].metricAmount]
               ELSE amounts[i]]]

\* Recipe.update whose UPDATE recipes names the id only
RecipeUpdateOutcome_AnyOwner(recs, instrs, next, amounts, username, recipeId, data, oldInstructions, pick) ==
  IF data.title = Undefined /\ ~data.instructions.given /\ ~data.ingredients.given
    THEN [status |-> "BadRequest", recipes |-> recs, instructions |-> instrs,
          nextInstructionId |-> next, ingredient_amounts |-> amounts]
  ELSE IF recipeId \notin DOMAIN recs
    THEN [status |-> "NotFound", recipes |-> recs, instructions |-> instrs,
          nextInstructionId |-> next, ingredient_amounts |-> amounts]
  ELSE [status |-> "ok",
        recipes |-> IF data.title # Undefined
                      THEN [recs EXCEPT ![recipeId].title = data.title] ELSE recs,
        instructions |-> instrs,
        nextInstructionId |-> next, ingredient_amounts |-> amounts]

\* Recipe.update(username, recipeId, data): data.title = Undefined and
\* given = FALSE stand for a payload without that key; oldInstructions is the
\* answer of the SELECT of Instruction._removeOrCreate and pick the rows the
\* UPDATE of Ingredient.updateAmounts joins
RecipeUpdateOutcome(recs, instrs, next, amounts, username, recipeId, data, oldInstructions, pick) ==
  IF data.title = Undefined /\ ~data.instructions.given /\ ~data.ingredients.given
    \* !Object.keys(data).length
    THEN [status |-> "BadRequest", recipes |-> recs, instructions |-> instrs,
          nextInstructionId |-> next, ingredient_amounts |-> amounts]
  ELSE IF recipeId \notin DOMAIN recs \/ recs[recipeId].username # username
    \* UPDATE recipes ... WHERE id = $n AND username = $m returned no row
    THEN [status |-> "NotFound", recipes |-> recs, instructions |-> instrs,
          nextInstructionId |-> next, ingredient_amounts |-> amounts]
  ELSE
    LET updated == IF data.title # Undefined
                     THEN [recs EXCEPT ![recipeId].title = data.title] ELSE recs
        \* instructions && instructions.length ? Instruction.update(...) : ...
        instr == IF data.instructions.given /\ data.instructions.items # <<>>
                   THEN InstructionUpdateMultipleOutcome(instrs, next, recipeId,
                                                         data.instructions.items,
                                                         oldInstructions)
                   ELSE [instructions |-> instrs, nextInstructionId |-> next]
        \* ingredients && ingredients.length ? Ingredient.updateAmounts(...) : ...
        ingr == IF data.ingredients.given /\ data.ingredients.entries # <<>>
                  THEN Ingredient_updateAmounts(amounts, data.ingredients.entries, pick)
                  ELSE [status |-> "ok", ingredient_amounts |-> amounts]
    IN [status |-> ingr.status, recipes |-> updated,
        instructions |-> instr.instructions,
        nextInstructionId |-> instr.nextInstructionId,
        ingredient_amounts |-> ingr.ingredient_amounts]

\* how many recipe ids a run may allocate
MaxRecipeId == 3

\* a recipe id that was never allocated
MissingRecipeId == MaxRecipeId + 1

\* Recipe.create(username, data) for the users of callers and the payloads of
\* the set payloads; data
\* carries instructions, ingredients (their labels) and lists, the four label
\* lists in the order cuisines, diets, courses, occasions.  The units step
\* (Unit.createBatch, Unit.getIds) touches no table of this model.
RecipeCreate(callers, payloads) ==
  \E username \in callers, data \in payloads :
   \E defaultIds \in getDefaultCategoryIds(categories, username) :
    /\ nextRecipeId <= MaxRecipeId
    /\ nextInstructionId + Len(data.instructions) - 1 <= MaxInstructionId
    /\ nextIngredientId + Len(data.ingredients) - 1 <= MaxIngredientId
    /\ LET id == nextRecipeId
           instr == InstructionCreateOutcome(instructions, nextInstructionId, id,
                                             data.instructions, FALSE)
           ingr == IngredientCreateOutcome(ingredients, nextIngredientId,
                                           ingredient_measures, id,
                                           RecipeIngredientData(data.ingredients))
           cat == Recipe_categorize(categories, nextCatId, recipes_categories, id,
                                    username, data.lists, defaultIds,
                                    Len(defaultCategories))
       IN /\ cat.nextCatId - 1 <= MaxCatId
          /\ recipes' = recipes @@ (id :> [username |-> username, title |-> data.title,
                                            isFavorite |-> FALSE])
          /\ nextRecipeId' = id + 1
          /\ instructions' = instr.instructions
          /\ nextInstructionId' = instr.nextInstructionId
          /\ ingredients' = ingr.ingredients
          /\ nextIngredientId' = ingr.nextIngredientId
          /\ ingredient_measures' = ingr.ingredient_measures
          /\ ingredient_amounts' = Ingredient_amountsOf(ingredient_amounts, ingr.ingredients)
          /\ categories' = cat.categories
          /\ nextCatId' = cat.nextCatId
          /\ recipes_categories' = cat.recipes_categories
          /\ result' = Outcome("Recipe.create", cat.status, id,
                               [username |-> username, lists |-> data.lists])
    /\ UNCHANGED <<calls, users>>

\* Recipe.remove for every user and every stored or missing recipe id
RecipeRemove ==
  \E username \in Usernames, recipeId \in (DOMAIN recipes) \cup {MissingRecipeId} :
    /\ LET out == RecipeRemoveOutcome(recipes, recipes_categories, instructions,
                                      ingredients, ingredient_measures, username,
                                      recipeId)
       IN /\ recipes' = out.recipes
          /\ recipes_categories' = out.recipes_categories
          /\ instructions' = out.instructions
          /\ ingredients' = out.ingredients
          /\ ingredient_measures' = out.ingredient_measures
          /\ ingredient_amounts' = Ingredient_amountsOf(ingredient_amounts, out.ingredients)
          /\ result' = Outcome("Recipe.remove", out.status, recipeId, <<>>)
    /\ UNCHANGED <<calls, categoryVars, nextRecipeId, nextInstructionId, nextIngredientId>>

\* the payload of a recipe without instructions, ingredients and labels
BareRecipes ==
  {[title |-> "soup", instructions |-> <<>>, ingredients |-> <<>>,
    lists |-> <<<<>>, <<>>, <<>>, <<>>>>]}

\* Recipe.toggleFavorite for every user and every stored or missing recipe id
RecipeToggleFavorite ==
  \E username \in Usernames, recipeId \in (DOMAIN recipes) \cup {MissingRecipeId} :
    /\ LET out == RecipeToggleFavoriteOutcome(recipes, username, recipeId)
       IN /\ recipes' = out.recipes
          /\ result' = Outcome("Recipe.toggleFavorite", out.status, recipeId,
                               <<out.isFavorite>>)
    /\ UNCHANGED <<calls, categoryVars, nextRecipeId, recipes_categories, instructionVars,
                   ingredientVars>>

\* Recipe.get for every user and every stored or missing recipe id
RecipeGet ==
  \E username \in Usernames, recipeId \in (DOMAIN recipes) \cup {MissingRecipeId} :
    /\ LET out == RecipeGetOutcome(recipes, instructions, ingredients, username, recipeId)
       IN result' = Outcome("Recipe.get", out.status, recipeId,
                            [username |-> username, returned |-> out.returned])
    /\ UNCHANGED <<calls, categoryVars, recipeVars, recipes_categories, instructionVars,
                   ingredientVars>>

\* the ingredients entry { id, usAmount, metricAmount } of an update
AmountsEntry(id) == [id |-> id, usAmount |-> 2, metricAmount |-> 2]

\* the payloads of Recipe.update: no key at all, a new title, one step, or
\* the new amounts of one ingredient id, stored or not
NoInstructions == [given |-> FALSE, items |-> <<>>]

NoIngredients == [given |-> FALSE, entries |-> <<>>]

RecipeUpdates ==
  {[title |-> Undefined, instructions |-> NoInstructions, ingredients |-> NoIngredients],
   [title |-> "stew", instructions |-> NoInstructions, ingredients |-> NoIngredients],
   [title |-> Undefined, instructions |-> [given |-> TRUE, items |-> <<"bake">>],
    ingredients |-> NoIngredients]}
    \cup {[title |-> Undefined, instructions |-> NoInstructions,
           ingredients |-> [given |-> TRUE, entries |-> <<AmountsEntry(id)>>]] :
            id \in 1 .. MaxIngredientId + 1}

\* Recipe.update for every user and every stored or missing recipe id
RecipeUpdate(payloads) ==
  \E username \in Usernames, recipeId \in (DOMAIN recipes) \cup {MissingRecipeId},
     data \in payloads :
   \E oldInstructions \in OrderedIds(instructions, recipeId),
      pick \in Ingredient_updateAmountsPicks(ingredient_amounts, data.ingredients.entries) :
    /\ nextInstructionId + Len(data.instructions.items) - Len(oldInstructions) - 1
         <= MaxInstructionId
    /\ LET out == RecipeUpdateOutcome(recipes, instructions, nextInstructionId,
                                      ingredient_amounts, username, recipeId, data,
                                      oldInstructions, pick)
       IN /\ recipes' = out.recipes
          /\ instructions' = out.instructions
          /\ nextInstructionId' = out.nextInstructionId
          /\ ingredient_amounts' = out.ingredient_amounts
          /\ result' = Outcome("Recipe.update", out.status, recipeId,
                               [username |-> username, data |-> data])
    /\ UNCHANGED <<calls, categoryVars, nextRecipeId, recipes_categories, ingredients,
                   nextIngredientId, ingredient_measures>>

(***************************************************************************)
(* Ingredient calls                                                        *)
(***************************************************************************)

\* an ingredient id that was never allocated
MissingIngredientId == MaxIngredientId + 1

\* ingredients as Ingredient.create receives them: the fixture ingredient
\* with its two measures, without and with a base food
PlainIngredient ==
  [label |-> "flour", baseFood |-> Undefined,
   measures |-> <<[amount |-> 1, unit |-> "oz", unitType |-> "us"],
                  [amount |-> 1, unit |-> "g", unitType |-> "metric"]>>]

FoodIngredient ==
  [label |-> "honey", baseFood |-> "honey",
   measures |-> <<[amount |-> 1, unit |-> "oz", unitType |-> "us"],
                  [amount |-> 1, unit |-> "g", unitType |-> "metric"]>>]

\* an ingredient as Recipe.create passes it on: a label only
LabelOnlyIngredient ==
  [label |-> "salt", baseFood |-> Undefined, measures |-> <<>>]

\* no measure key in the payload of an update
NoMeasure ==
  [given |-> FALSE, unitType |-> Undefined, amount |-> Absent, unit |-> Undefined]

\* update payloads that carry a measure: { measure: { unitType, measureData:
\* { amount, unit } } } with a new amount, with or without a new unit, for
\* either unit type or without unitType
MeasureEdits ==
  [label : {Undefined}, baseFood : {Undefined}, ordinal : {Absent},
   measure : [given : {TRUE}, unitType : {Undefined, "us", "metric"},
              amount : {2}, unit : {Undefined, "cup"}]]

\* an ingredient without baseFood that has a us measure and no metric one
UsOnlyIngredient ==
  [label |-> "salt", baseFood |-> Undefined,
   measures |-> <<[amount |-> 1, unit |-> "oz", unitType |-> "us"]>>]

\* update payloads whose measure names a unit type or none and whose
\* measureData carries an amount or no key at all
LooseMeasureEdits ==
  [label : {Undefined}, baseFood : {Undefined}, ordinal : {Absent},
   measure : [given : {TRUE}, unitType : {Undefined, "us", "metric"},
              amount : {Absent, 2}, unit : {Undefined}]]

\* update payloads that carry a new label, a new ordinal or both next to a
\* measure with an amount that names a unit type or none
FieldAndMeasureEdits ==
  [label : {Undefined, "sugar"}, baseFood : {Undefined}, ordinal : {Absent, 2},
   measure : [given : {TRUE}, unitType : {Undefined, "us", "metric"},
              amount : {2}, unit : {Undefined}]]

\* what the conversion service answers: an amount, or nothing (a failed request)
ConversionReplies == {3, Absent}

\* Ingredient.create(recipeId, ingredientData)
IngredientCreate(payloads) ==
  \E recipeId \in DOMAIN recipes, ingredientData \in Arrays(payloads) :
    /\ Len(ingredientData) > 0
    /\ nextIngredientId + Len(ingredientData) - 1 <= MaxIngredientId
    /\ LET out == IngredientCreateOutcome(ingredients, nextIngredientId,
                                          ingredient_measures, recipeId, ingredientData)
       IN /\ ingredients' = out.ingredients
          /\ nextIngredientId' = out.nextIngredientId
          /\ ingredient_measures' = out.ingredient_measures
          /\ ingredient_amounts' = Ingredient_amountsOf(ingredient_amounts, out.ingredients)
          /\ result' = Outcome("Ingredient.create", out.status, recipeId,
                               [data |-> ingredientData, returned |-> out.returned])
    /\ UNCHANGED <<calls, categoryVars, recipeVars, recipes_categories, instructionVars>>

\* Ingredient.update(data, id) with an object: _updateSingle
IngredientUpdateSingle(payloads, replies) ==
  \E id \in (DOMAIN ingredients) \cup {MissingIngredientId},
     data \in payloads, reply \in replies :
    /\ LET out == IngredientUpdateSingleOutcome(ingredients, ingredient_measures,
                                                data, id, reply)
       IN /\ ingredients' = out.ingredients
          /\ ingredient_measures' = out.ingredient_measures
          /\ result' = Outcome("Ingredient.update", out.status, id,
                               <<data.measure, out.conversion>>)
    /\ UNCHANGED <<calls, categoryVars, recipeVars, recipes_categories, instructionVars,
                   nextIngredientId, ingredient_amounts>>

\* Ingredient.remove(id)
IngredientRemove ==
  \E id \in (DOMAIN ingredients) \cup {MissingIngredientId} :
    /\ LET out == IngredientRemoveOutcome(ingredients, ingredient_measures, id)
       IN /\ ingredients' = out.ingredients
          /\ ingredient_measures' = out.ingredient_measures
          /\ ingredient_amounts' = Ingredient_amountsOf(ingredient_amounts, out.ingredients)
          /\ result' = Outcome("Ingredient.remove", out.status,
                               IF id \in DOMAIN ingredients
                                 THEN ingredients[id].recipeId ELSE NULL,
                               <<>>)
    /\ UNCHANGED <<calls, categoryVars, recipeVars, recipes_categories, instructionVars,
                   nextIngredientId>>

(***************************************************************************)
(* Calls in flight: a call runs query by query, and between two of its     *)
(* awaited queries the queries of another call can run                     *)
(***************************************************************************)

\* the two calls that can be in flight at once
Calls == {"A", "B"}

\* no call in flight; otherwise the method, the query it runs next and its
\* local variables
IdleCall ==
  [op |-> "idle", pc |-> "idle", recipeId |-> NULL, items |-> <<>>,
   isFavorite |-> FALSE, startingOrder |-> 0, oldInstructions |-> <<>>,
   username |-> "", label |-> "", parentId |-> NULL]

\* Recipe.toggleFavorite, first query: SELECT id, is_favorite FROM recipes
\* WHERE id = $1 AND username = $2
Recipe_toggleFavorite_select(recs, username, recipeId) ==
  IF recipeId \notin DOMAIN recs \/ recs[recipeId].username # username
    THEN [status |-> "NotFound", isFavorite |-> FALSE]
  ELSE [status |-> "ok", isFavorite |-> recs[recipeId].isFavorite]

\* Recipe.toggleFavorite, second query: UPDATE recipes SET is_favorite = $1
\* with the negation of the flag that was read
Recipe_toggleFavorite_update(recs, isFavorite) ==
  [r \in DOMAIN recs |-> [recs[r] EXCEPT !.isFavorite = ~isFavorite]]

\* call p starts Recipe.toggleFavorite and its SELECT runs
ToggleFavoriteSelect(p) ==
  /\ calls[p].op = "idle"
  /\ \E username \in Usernames, recipeId \in (DOMAIN recipes) \cup {MissingRecipeId} :
       LET row == Recipe_toggleFavorite_select(recipes, username, recipeId)
       IN IF row.status = "ok"
            THEN /\ calls' = [calls EXCEPT ![p] =
                                [IdleCall EXCEPT !.op = "Recipe.toggleFavorite",
                                                 !.pc = "update",
                                                 !.recipeId = recipeId,
                                                 !.isFavorite = row.isFavorite]]
                 /\ UNCHANGED result
            ELSE /\ UNCHANGED calls
                 /\ result' = Outcome("Recipe.toggleFavorite", row.status, recipeId,
                                      <<FALSE>>)
  /\ UNCHANGED <<categoryVars, recipeVars, recipes_categories, instructionVars,
                 ingredientVars>>

\* the UPDATE of call p runs and the call returns
ToggleFavoriteUpdate(p) ==
  /\ calls[p].op = "Recipe.toggleFavorite"
  /\ recipes' = Recipe_toggleFavorite_update(recipes, calls[p].isFavorite)
  /\ calls' = [calls EXCEPT ![p] = IdleCall]
  /\ result' = Outcome("Recipe.toggleFavorite", "ok", calls[p].recipeId,
                       <<calls[p].isFavorite>>)
  /\ UNCHANGED <<categoryVars, nextRecipeId, recipes_categories, instructionVars,
                 ingredientVars>>

\* call p starts Instruction.create with an array and its _getCount runs
InstructionCreateCount(p, texts) ==
  /\ calls[p].op = "idle"
  /\ \E recipeId \in DOMAIN recipes, steps \in Arrays(texts) :
       calls' = [calls EXCEPT ![p] =
                   [IdleCall EXCEPT !.op = "Instruction.create",
                                    !.pc = "insert",
                                    !.recipeId = recipeId,
                                    !.items = steps,
                                    !.startingOrder =
                                       Instruction_getCount(instructions, recipeId) + 1]]
  /\ UNCHANGED <<categoryVars, recipeVars, recipes_categories, instructionVars,
                 ingredientVars, result>>

\* the INSERTs of call p, issued together by _createMultiple, run and the
\* call returns
InstructionCreateInsert(p) ==
  /\ calls[p].op = "Instruction.create"
  /\ nextInstructionId + Len(calls[p].items) - 1 <= MaxInstructionId
  /\ instructions' = Instruction_createMultiple(instructions, nextInstructionId,
                                                calls[p].recipeId, calls[p].items,
                                                calls[p].startingOrder)
  /\ nextInstructionId' = nextInstructionId + Len(calls[p].items)
  /\ calls' = [calls EXCEPT ![p] = IdleCall]
  /\ result' = Outcome("Instruction.create", "ok", calls[p].recipeId,
                       [data |-> calls[p].items, isString |-> FALSE,
                        returned |->
                          [isArray |-> TRUE,
                           rows |-> Instruction_returning(instructions', nextInstructionId,
                                                          Len(calls[p].items))]])
  /\ UNCHANGED <<categoryVars, recipeVars, recipes_categories, ingredientVars>>

\* the INSERT INTO ingredients statements of Ingredient.create, the i-th
\* (from 0) with ordinal startingOrder + i
Ingredient_insertRows(ingrs, next, recipeId, ingredientData, startingOrder) ==
  ingrs @@ [i \in next .. (next + Len(ingredientData) - 1) |->
              [recipeId |-> recipeId,
               label |-> ingredientData[i - next + 1].label,
               baseFood |-> IF ingredientData[i - next + 1].baseFood = Undefined
                              THEN NoText
                              ELSE ingredientData[i - next + 1].baseFood,
               ordinal |-> startingOrder + (i - next)]]

\* call p starts Ingredient.create and its _getCount runs; the ingredients
\* of payloads carry no measures, so that _createMeasures issues no query
IngredientCreateCount(p, payloads) ==
  /\ calls[p].op = "idle"
  /\ \E recipeId \in DOMAIN recipes, ingredientData \in Arrays(payloads) :
       /\ \A i \in DOMAIN ingredientData : ingredientData[i].measures = <<>>
       /\ calls' = [calls EXCEPT ![p] =
                      [IdleCall EXCEPT !.op = "Ingredient.create",
                                       !.pc = "insert",
                                       !.recipeId = recipeId,
                                       !.items = ingredientData,
                                       !.startingOrder =
                                          Ingredient_getCount(ingredients, recipeId) + 1]]
  /\ UNCHANGED <<categoryVars, recipeVars, recipes_categories, instructionVars,
                 ingredientVars, result>>

\* the INSERTs of call p run and the call returns
IngredientCreateInsert(p) ==
  /\ calls[p].op = "Ingredient.create"
  /\ nextIngredientId + Len(calls[p].items) - 1 <= MaxIngredientId
  /\ ingredients' = Ingredient_insertRows(ingredients, nextIngredientId,
                                          calls[p].recipeId, calls[p].items,
                                          calls[p].startingOrder)
  /\ nextIngredientId' = nextIngredientId + Len(calls[p].items)
  /\ ingredient_amounts' = Ingredient_amountsOf(ingredient_amounts, ingredients')
  /\ calls' = [calls EXCEPT ![p] = IdleCall]
  /\ result' = Outcome("Ingredient.create", "ok", calls[p].recipeId, <<>>)
  /\ UNCHANGED <<categoryVars, recipeVars, recipes_categories, instructionVars,
                 ingredient_measures>>

\* the steps of the array, among them null, which step TEXT NOT NULL refuses
StepsOrNull == Steps \cup {NoText}

\* instructions.length - oldInstructions.length of the replaceAll of call p
ReplaceAllDelta(p) == Len(calls[p].items) - Len(calls[p].oldInstructions)

\* call p starts Instruction.update with an array and the SELECT id ... ORDER
\* BY ordinal of _removeOrCreate runs
ReplaceAllSelect(p, texts) ==
  /\ calls[p].op = "idle"
  /\ \E recipeId \in DOMAIN recipes, items \in Arrays(texts) :
      \E oldInstructions \in OrderedIds(instructions, recipeId) :
       LET delta == Len(items) - Len(oldInstructions)
       IN calls' = [calls EXCEPT ![p] =
                      [IdleCall EXCEPT !.op = "Instruction.update",
                                       !.pc = IF delta > 0 THEN "count"
                                              ELSE IF delta < 0 THEN "delete"
                                              ELSE "update",
                                       !.recipeId = recipeId,
                                       !.items = items,
                                       !.oldInstructions = oldInstructions]]
  /\ UNCHANGED <<categoryVars, recipeVars, recipes_categories, instructionVars,
                 ingredientVars, result>>

\* delta > 0: the _getCount of the Instruction.create of the missing steps
ReplaceAllCount(p) ==
  /\ calls[p].op = "Instruction.update"
  /\ calls[p].pc = "count"
  /\ calls' = [calls EXCEPT ![p].pc = "insert",
                            ![p].startingOrder =
                               Instruction_getCount(instructions, calls[p].recipeId) + 1]
  /\ UNCHANGED <<categoryVars, recipeVars, recipes_categories, instructionVars,
                 ingredientVars, result>>

\* delta > 0: the INSERTs of the last delta steps run; an INSERT of a null
\* step is refused (its id is spent), the others store their row, and after
\* a refused INSERT the call throws
ReplaceAllInsert(p) ==
  /\ calls[p].op = "Instruction.update"
  /\ calls[p].pc = "insert"
  /\ LET items == calls[p].items
         toCreate == SubSeq(items, Len(items) - ReplaceAllDelta(p) + 1, Len(items))
         stored == Instruction_createMultiple(instructions, nextInstructionId,
                                              calls[p].recipeId, toCreate,
                                              calls[p].startingOrder)
         refused == {i \in DOMAIN stored : stored[i].step = NoText}
     IN /\ nextInstructionId + Len(toCreate) - 1 <= MaxInstructionId
        /\ instructions' = Without(stored, refused)
        /\ nextInstructionId' = nextInstructionId + Len(toCreate)
        /\ IF refused = {}
             THEN /\ calls' = [calls EXCEPT ![p].pc = "update"]
                  /\ UNCHANGED result
             ELSE /\ calls' = [calls EXCEPT ![p] = IdleCall]
                  /\ result' = Outcome("Instruction.update", "DbError",
                                       calls[p].recipeId, items)
  /\ UNCHANGED <<categoryVars, recipeVars, recipes_categories, ingredientVars>>

\* delta < 0: the DELETEs of the last -delta old instructions run
ReplaceAllDelete(p) ==
  /\ calls[p].op = "Instruction.update"
  /\ calls[p].pc = "delete"
  /\ LET old == calls[p].oldInstructions
         instructionsToDelete ==
           {old[k] : k \in (Len(old) + ReplaceAllDelta(p) + 1) .. Len(old)}
     IN instructions' = Without(instructions, instructionsToDelete)
  /\ calls' = [calls EXCEPT ![p].pc = "update"]
  /\ UNCHANGED <<categoryVars, recipeVars, recipes_categories, nextInstructionId,
                 ingredientVars, result>>

\* the UPDATEs ... SET step = $1 WHERE recipe_id = $3 AND ordinal = i + 1 of
\* _updateMultiple run and the call returns; an UPDATE that would set a
\* stored row's step to null is refused and the call throws
ReplaceAllUpdate(p) ==
  /\ calls[p].op = "Instruction.update"
  /\ calls[p].pc = "update"
  /\ LET items == calls[p].items
         delta == ReplaceAllDelta(p)
         toUpdate == IF delta > 0 THEN SubSeq(items, 1, Len(items) - delta) ELSE items
         hit == {i \in DOMAIN instructions :
                   /\ instructions[i].recipeId = calls[p].recipeId
                   /\ instructions[i].ordinal \in 1 .. Len(toUpdate)}
         refused == {i \in hit : toUpdate[instructions[i].ordinal] = NoText}
     IN /\ instructions' =
             [i \in DOMAIN instructions |->
                IF i \in hit \ refused
                  THEN [instructions[i] EXCEPT !.step = toUpdate[instructions[i].ordinal]]
                  ELSE instructions[i]]
        /\ result' = Outcome("Instruction.update",
                             IF refused = {} THEN "ok" ELSE "DbError",
                             calls[p].recipeId, items)
  /\ calls' = [calls EXCEPT ![p] = IdleCall]
  /\ UNCHANGED <<categoryVars, recipeVars, recipes_categories, nextInstructionId,
                 ingredientVars>>

\* Category.create, first query when parentId is given: SELECT id, username
\* FROM categories WHERE id = $1, and the two tests on its answer
Category_create_parent(cats, username, parentId) ==
  IF parentId \notin DOMAIN cats THEN [status |-> "NotFound", returned |-> Undefined]
  ELSE IF cats[parentId].username # username
    THEN [status |-> "ok", returned |-> "UnauthorizedError"]
  ELSE [status |-> "ok", returned |-> "category"]

\* the outcome record of a step-by-step Category.create: the arguments of the
\* call and the kind of value it returned
CategoryCreateResult(status, returned, username, label, parentId) ==
  Outcome("Category.create", status, NULL,
          [returned |-> returned, username |-> username, label |-> label,
           parentId |-> parentId])

\* call p starts Category.create for one of callers with a parentId of
\* parents and the SELECT of the parent runs
CategoryCreateParent(p, callers, parents) ==
  /\ calls[p].op = "idle"
  /\ \E username \in callers, label \in InputLabels, parentId \in parents :
       LET row == Category_create_parent(categories, username, parentId)
       IN IF row.status = "ok" /\ row.returned = "category"
            THEN /\ calls' = [calls EXCEPT ![p] =
                                [IdleCall EXCEPT !.op = "Category.create",
                                                 !.pc = "duplicate",
                                                 !.username = username,
                                                 !.label = label,
                                                 !.parentId = parentId]]
                 /\ UNCHANGED result
            ELSE /\ UNCHANGED calls
                 /\ result' = CategoryCreateResult(row.status, row.returned,
                                                   username, label, parentId)
  /\ UNCHANGED <<categoryVars, recipeVars, recipes_categories, instructionVars,
                 ingredientVars>>

\* call p starts Category.create without a parentId: its first query is the
\* duplicate SELECT, and WHERE parent_id = NULL AND label = $2 has no row
CategoryCreateRoot(p, callers) ==
  /\ calls[p].op = "idle"
  /\ \E username \in callers, label \in InputLabels :
       /\ SiblingsWithLabel(categories, NULL, label) = {}
       /\ calls' = [calls EXCEPT ![p] =
                      [IdleCall EXCEPT !.op = "Category.create",
                                       !.pc = "insert",
                                       !.username = username,
                                       !.label = label,
                                       !.parentId = NULL]]
  /\ UNCHANGED <<categoryVars, recipeVars, recipes_categories, instructionVars,
                 ingredientVars, result>>

\* the duplicate SELECT of call p runs: a row makes the call throw
CategoryCreateDuplicate(p) ==
  /\ calls[p].op = "Category.create"
  /\ calls[p].pc = "duplicate"
  /\ IF SiblingsWithLabel(categories, calls[p].parentId, calls[p].label) # {}
       THEN /\ calls' = [calls EXCEPT ![p] = IdleCall]
            /\ result' = CategoryCreateResult("BadRequest", Undefined, calls[p].username,
                                              calls[p].label, calls[p].parentId)
       ELSE /\ calls' = [calls EXCEPT ![p].pc = "insert"]
            /\ UNCHANGED result
  /\ UNCHANGED <<categoryVars, recipeVars, recipes_categories, instructionVars,
                 ingredientVars>>

\* the INSERT of call p runs and the call returns; UNIQUE (label, parent_id)
\* and the foreign key of parent_id refuse the row (its id is spent) and the
\* call throws
CategoryCreateInsert(p) ==
  /\ calls[p].op = "Category.create"
  /\ calls[p].pc = "insert"
  /\ nextCatId <= MaxCatId
  /\ LET parentId == calls[p].parentId
         refused == \/ parentId # NULL /\ parentId \notin DOMAIN categories
                    \/ SiblingsWithLabel(categories, parentId, calls[p].label) # {}
     IN /\ categories' =
             IF refused THEN categories
             ELSE categories @@ (nextCatId :> [username |-> calls[p].username,
                                               label |-> calls[p].label,
                                               parentId |-> parentId])
        /\ result' = CategoryCreateResult(IF refused THEN "DbError" ELSE "ok",
                                          IF refused THEN Undefined ELSE "category",
                                          calls[p].username, calls[p].label, parentId)
  /\ nextCatId' = nextCatId + 1
  /\ calls' = [calls EXCEPT ![p] = IdleCall]
  /\ UNCHANGED <<users, recipeVars, recipes_categories, instructionVars, ingredientVars>>

(***************************************************************************)
(* Initial state: the schema is loaded and the fixture users are inserted  *)
(***************************************************************************)

Init ==
  /\ users = Usernames
  /\ categories = SeedUsers(Len(UserSeq))
  /\ nextCatId = Len(UserSeq) * Len(defaultCategories) + 1
  /\ recipes = EmptyTable
  /\ nextRecipeId = 1
  /\ recipes_categories = {}
  /\ instructions = EmptyTable
  /\ nextInstructionId = 1
  /\ ingredients = EmptyTable
  /\ nextIngredientId = 1
  /\ ingredient_measures = EmptyTable
  /\ ingredient_amounts = EmptyTable
  /\ result = Outcome("init", "ok", NULL, <<>>)
  /\ calls = [p \in Calls |-> IdleCall]

NextFavorite == RecipeCreate(Usernames, BareRecipes) \/ RecipeToggleFavorite

SpecFavorite == Init /\ [][NextFavorite]_vars

\* the first recipe of a run, created by callers with one of payloads
FirstRecipe(callers, payloads) ==
  /\ nextRecipeId = 1
  /\ RecipeCreate(callers, payloads)

\* a recipe of u1 with one instruction and one ingredient, or none
SmallRecipes ==
  {[title |-> "soup", instructions |-> <<>>, ingredients |-> <<>>,
    lists |-> <<<<>>, <<>>, <<>>, <<>>>>],
   [title |-> "soup", instructions |-> <<"mix">>, ingredients |-> <<"salt">>,
    lists |-> <<<<>>, <<>>, <<>>, <<>>>>]}

\* a recipe with one instruction and one ingredient
StockedRecipes ==
  {[title |-> "soup", instructions |-> <<"mix">>, ingredients |-> <<"salt">>,
    lists |-> <<<<>>, <<>>, <<>>, <<>>>>]}

\* the second recipe of a run, created by callers with one of payloads
SecondRecipe(callers, payloads) ==
  /\ nextRecipeId = 2
  /\ RecipeCreate(callers, payloads)

NextRecipe ==
  \/ FirstRecipe({"u1"}, StockedRecipes)
  \/ SecondRecipe({"u2"}, StockedRecipes)
  \/ RecipeGet
  \/ RecipeUpdate(RecipeUpdates)
  \/ RecipeToggleFavorite
  \/ RecipeRemove

SpecRecipe == Init /\ [][NextRecipe]_vars

NextOrdinals ==
  \/ FirstRecipe({"u1"}, SmallRecipes)
  \/ InstructionCreate({"mix"})
  \/ InstructionUpdateMultiple({"mix"})
  \/ InstructionRemove
  \/ IngredientCreate({LabelOnlyIngredient})
  \/ IngredientRemove

SpecOrdinals == Init /\ [][NextOrdinals]_vars

NextAppend ==
  \/ FirstRecipe({"u1"}, SmallRecipes)
  \/ InstructionCreate(Steps)
  \/ InstructionRemove
  \/ IngredientCreate({LabelOnlyIngredient, PlainIngredient})
  \/ IngredientRemove

SpecAppend == Init /\ [][NextAppend]_vars

NextToggleRace ==
  \/ RecipeCreate(Usernames, BareRecipes)
  \/ \E p \in Calls : ToggleFavoriteSelect(p)
  \/ \E p \in Calls : ToggleFavoriteUpdate(p)

SpecToggleRace == Init /\ [][NextToggleRace]_vars

NextAppendRace ==
  \/ FirstRecipe({"u1"}, SmallRecipes)
  \/ \E p \in Calls : InstructionCreateCount(p, {"mix"})
  \/ \E p \in Calls : InstructionCreateInsert(p)
  \/ \E p \in Calls : IngredientCreateCount(p, {LabelOnlyIngredient})
  \/ \E p \in Calls : IngredientCreateInsert(p)

SpecAppendRace == Init /\ [][NextAppendRace]_vars

NextReplaceAllSteps ==
  \/ FirstRecipe({"u1"}, SmallRecipes)
  \/ ReplaceAllSelect("A", StepsOrNull)
  \/ ReplaceAllCount("A")
  \/ ReplaceAllInsert("A")
  \/ ReplaceAllDelete("A")
  \/ ReplaceAllUpdate("A")

SpecReplaceAllSteps == Init /\ [][NextReplaceAllSteps]_vars

NextReplaceAll ==
  \/ FirstRecipe({"u1"}, SmallRecipes)
  \/ InstructionCreate(Steps)
  \/ InstructionUpdateMultiple(Steps)
  \/ InstructionRemove

SpecReplaceAll == Init /\ [][NextReplaceAll]_vars

NextMeasures ==
  \/ FirstRecipe({"u1"}, BareRecipes)
  \/ IngredientCreate({PlainIngredient, FoodIngredient})
  \/ IngredientUpdateSingle(MeasureEdits, ConversionReplies)

SpecMeasures == Init /\ [][NextMeasures]_vars

NextMeasureErrors ==
  \/ FirstRecipe({"u1"}, BareRecipes)
  \/ IngredientCreate({PlainIngredient, UsOnlyIngredient})
  \/ IngredientUpdateSingle(LooseMeasureEdits, {3})
  \/ IngredientRemove

SpecMeasureErrors == Init /\ [][NextMeasureErrors]_vars

NextFieldEdits ==
  \/ FirstRecipe({"u1"}, BareRecipes)
  \/ IngredientCreate({PlainIngredient, UsOnlyIngredient})
  \/ IngredientUpdateSingle(FieldAndMeasureEdits, {3})
  \/ IngredientRemove

SpecFieldEdits == Init /\ [][NextFieldEdits]_vars

\* the first category a run creates after the seeding
FirstCategory ==
  /\ nextCatId = Len(UserSeq) * Len(defaultCategories) + 1
  /\ CategoryCreate

\* a recipe without labels, or filed under the cuisine "italian"
FiledRecipes ==
  {[title |-> "soup", instructions |-> <<>>, ingredients |-> <<>>,
    lists |-> <<<<>>, <<>>, <<>>, <<>>>>],
   [title |-> "soup", instructions |-> <<>>, ingredients |-> <<>>,
    lists |-> <<<<"italian">>, <<>>, <<>>, <<>>>>]}

NextLinks ==
  \/ FirstRecipe(Usernames, FiledRecipes)
  \/ FirstCategory
  \/ CategoryAddRecipe
  \/ CategoryUpdate
  \/ CategoryRemove

SpecLinks == Init /\ [][NextLinks]_vars

\* a recipe with one instruction and one ingredient, filed under the cuisine
\* "italian" once, or twice in the same list
LabelledRecipes ==
  {[title |-> "soup", instructions |-> <<"mix">>, ingredients |-> <<"salt">>,
    lists |-> <<<<"italian">>, <<>>, <<>>, <<>>>>],
   [title |-> "soup", instructions |-> <<"mix">>, ingredients |-> <<"salt">>,
    lists |-> <<<<"italian", "italian">>, <<>>, <<>>, <<>>>>]}

\* a Category.create that stores a category below a category that is not a
\* root
NestedCategory ==
  /\ CategoryCreate
  /\ nextCatId' = nextCatId + 1
  /\ categories'[nextCatId].parentId # NULL
  /\ categories[categories'[nextCatId].parentId].parentId # NULL

NextCascade ==
  \/ FirstRecipe({"u1"}, LabelledRecipes)
  \/ IngredientCreate({PlainIngredient})
  \/ NestedCategory
  \/ CategoryAddRecipe
  \/ RecipeRemove
  \/ CategoryRemove

SpecCascade == Init /\ [][NextCascade]_vars

\* recipes filed under no label, under the cuisine "italian", under the
\* cuisines "italian" and "thai", or under the cuisine "thai" and the
\* occasion "italian"
TaggedRecipes ==
  {[title |-> "soup", instructions |-> <<>>, ingredients |-> <<>>, lists |-> lists] :
     lists \in {<<<<>>, <<>>, <<>>, <<>>>>,
                <<<<"italian">>, <<>>, <<>>, <<>>>>,
                <<<<"italian", "thai">>, <<>>, <<>>, <<>>>>,
                <<<<"thai">>, <<>>, <<>>, <<"italian">>>>}}

NextCategorize ==
  \/ FirstRecipe(Usernames, TaggedRecipes)
  \/ SecondRecipe(Usernames, TaggedRecipes)
  \/ FirstCategory
  \/ CategoryRemove

SpecCategorize == Init /\ [][NextCategorize]_vars

NextCategory == CategoryCreate \/ CategoryUpdate \/ CategoryRemove

SpecCategory == Init /\ [][NextCategory]_vars

\* the parents of the racing calls: a root of the caller, a root of the
\* other user and an id that was never allocated
RaceParents == {FirstRootOf(1), FirstRootOf(2), MaxCatId + 1}

NextCreateRace ==
  \/ \E p \in Calls : CategoryCreateParent(p, {"u1"}, RaceParents)
  \/ \E p \in Calls : CategoryCreateRoot(p, {"u1"})
  \/ \E p \in Calls : CategoryCreateDuplicate(p)
  \/ \E p \in Calls : CategoryCreateInsert(p)

SpecCreateRace == Init /\ [][NextCreateRace]_vars

\* a Category.create of u1 that stores a category labelled "italian"
ItalianCategory ==
  /\ CategoryCreate
  /\ nextCatId' = nextCatId + 1
  /\ categories'[nextCatId].username = "u1"
  /\ categories'[nextCatId].label = "italian"

NextSubTree == ItalianCategory \/ CategoryUpdate \/ CategoryRemove \/ CategoryGetSubTree

SpecSubTree == Init /\ [][NextSubTree]_vars

(***************************************************************************)
(* Properties of the category forest                                       *)
(***************************************************************************)

\* C2: no two categories with the same owner and the same parentId (null,
\* the root level of the owner, included) carry the same label
C2_SiblingLabelsUnique ==
  \A c1, c2 \in DOMAIN categories :
    (/\ c1 # c2
     /\ categories[c1].username = categories[c2].username
     /\ categories[c1].parentId = categories[c2].parentId)
      => categories[c1].label # categories[c2].label

RECURSIVE ReachesNull(_, _, _)
\* following parentId from id ends at NULL without passing a category of seen
ReachesNull(cats, id, seen) ==
  IF id = NULL THEN TRUE
  ELSE IF id \in seen \/ id \notin DOMAIN cats THEN FALSE
  ELSE ReachesNull(cats, cats[id].parentId, seen \cup {id})

\* C3: from every category the parentId chain reaches null without visiting
\* a category twice: the category graph is a forest
C3_Forest ==
  \A c \in DOMAIN categories : ReachesNull(categories, c, {})

\* C10: every user owns exactly one root category for each default label, so
\* getDefaultCategoryIds has exactly one answer, made of those roots
C10_FourDefaultRoots ==
  \A u \in users :
    /\ \A i \in DOMAIN defaultCategories :
         Cardinality(DefaultRootRows(categories, u, defaultCategories[i])) = 1
    /\ Cardinality(getDefaultCategoryIds(categories, u)) = 1

(***************************************************************************)
(* Properties of the ordered collections                                   *)
(***************************************************************************)

\* the ordinals of the rows are exactly 1..N, N the number of rows
OrdinalsDense(table, rows) ==
  {table[i].ordinal : i \in rows} = 1 .. Cardinality(rows)

\* the instructions and the ingredients of recipe r have dense ordinals
DenseOrdinals(instrs, ingrs, r) ==
  /\ OrdinalsDense(instrs, InstructionRows(instrs, r))
  /\ OrdinalsDense(ingrs, IngredientRows(ingrs, r))

StepsInOrdinalOrder(instrs, recipeId) ==
  {[i \in DOMAIN s |-> instrs[s[i]].step] : s \in OrderedIds(instrs, recipeId)}

\* C8: right after replaceAll(recipeId, items), reading the instructions of
\* the recipe in ordinal order yields exactly items, the empty list included
C8_ReplaceAllRoundTrip ==
  (result.op = "Instruction.update" /\ result.status = "ok")
    => StepsInOrdinalOrder(instructions, result.id) = {result.info}

(***************************************************************************)
(* Properties of the favorite flag                                         *)
(***************************************************************************)

\* C4: a successful toggleFavorite negates the flag of its recipe, and a
\* second one right after the first gives the flag the value the first read
C4_ToggleNegatesTwiceRestores ==
  [][(result'.op = "Recipe.toggleFavorite" /\ result'.status = "ok")
       => /\ recipes'[result'.id].isFavorite = ~recipes[result'.id].isFavorite
          /\ (/\ result.op = "Recipe.toggleFavorite"
              /\ result.status = "ok"
              /\ result.id = result'.id)
               => recipes'[result'.id].isFavorite = result.info[1]]_vars

\* the only recipe was a favorite when the toggle read it, so it had been
\* toggled before, and it is back to the FALSE it was created with
C4_Witness ==
  /\ result.op = "Recipe.toggleFavorite"
  /\ result.status = "ok"
  /\ DOMAIN recipes = {result.id}
  /\ result.info = <<TRUE>>
  /\ recipes[result.id].isFavorite = FALSE

\* C5: toggleFavorite(owner, id) leaves the flag of every other recipe as it was
C5_ToggleOnlyTarget ==
  [][(result'.op = "Recipe.toggleFavorite" /\ result'.status = "ok")
       => \A r \in (DOMAIN recipes) \ {result'.id} :
            recipes'[r].isFavorite = recipes[r].isFavorite]_vars

(***************************************************************************)
(* Properties of the measures                                              *)
(***************************************************************************)

OtherUnitType(unitType) == IF unitType = "us" THEN "metric" ELSE "us"

\* C6: a successful update of one measure of an ingredient with a baseFood
\* calls the conversion with (baseFood, updated amount, updated unit, unit of
\* the other measure), writes the answer into the amount of the other
\* measure and leaves the unit of the other measure alone
C6_OtherMeasureConverted ==
  [][(/\ result'.op = "Ingredient.update"
      /\ result'.status = "ok"
      /\ result'.info[1].given
      /\ ingredients'[result'.id].baseFood # NoText)
       => LET id == result'.id
              edit == result'.info[1]
              call == result'.info[2]
              source == <<id, edit.unitType>>
              other == <<id, OtherUnitType(edit.unitType)>>
              updatedAmount == IF edit.amount # Absent THEN edit.amount
                               ELSE ingredient_measures[source].amount
              updatedUnit == IF edit.unit # Undefined THEN edit.unit
                             ELSE ingredient_measures[source].unit
          IN /\ call = <<ingredients'[id].baseFood, updatedAmount, updatedUnit,
                         ingredient_measures[other].unit, call[5]>>
             /\ ingredient_measures'[source] =
                  [amount |-> updatedAmount, unit |-> updatedUnit]
             /\ ingredient_measures'[other].amount = call[5]
             /\ ingredient_measures'[other].unit = ingredient_measures[other].unit]_vars

\* the us measure of a honey ingredient was set to 2 cup and its metric
\* measure holds the converted 3, still in g
C6_Witness ==
  /\ result.op = "Ingredient.update"
  /\ result.status = "ok"
  /\ result.info[1].unitType = "us"
  /\ result.info[1].unit = "cup"
  /\ result.info[2] = <<"honey", 2, "cup", "g", 3>>
  /\ ingredient_measures[<<result.id, "us">>] = [amount |-> 2, unit |-> "cup"]
  /\ ingredient_measures[<<result.id, "metric">>] = [amount |-> 3, unit |-> "g"]

\* C7: an update of one measure of an ingredient without baseFood makes no
\* conversion call and changes no measure row but the addressed one
C7_OnlyAddressedMeasure ==
  [][(/\ result'.op = "Ingredient.update"
      /\ result'.info[1].given
      /\ result'.id \in DOMAIN ingredients
      /\ ingredients'[result'.id].baseFood = NoText)
       => /\ result'.info[2] = <<>>
          /\ DOMAIN ingredient_measures' = DOMAIN ingredient_measures
          /\ \A key \in DOMAIN ingredient_measures :
               key # <<result'.id, result'.info[1].unitType>>
                 => ingredient_measures'[key] = ingredient_measures[key]]_vars

\* the us measure of an ingredient without baseFood was set to 2 while its
\* metric measure and the measures of a second ingredient keep their amount 1
C7_Witness ==
  /\ result.op = "Ingredient.update"
  /\ result.status = "ok"
  /\ result.info[1].unitType = "us"
  /\ ingredients[result.id].baseFood = NoText
  /\ ingredient_measures[<<result.id, "us">>].amount = 2
  /\ ingredient_measures[<<result.id, "metric">>] = [amount |-> 1, unit |-> "g"]
  /\ \E other \in (DOMAIN ingredients) \ {result.id} :
       /\ ingredient_measures[<<other, "us">>] = [amount |-> 1, unit |-> "oz"]
       /\ ingredient_measures[<<other, "metric">>] = [amount |-> 1, unit |-> "g"]

(***************************************************************************)
(* Properties of the default roots                                         *)
(***************************************************************************)

\* the categories at and below id
SubTree(cats, id) == CascadeClosure(cats, {id})

\* C9: Category.update and Category.remove on a default root (label among
\* the four defaults, parentId null) fail with Forbidden for every payload,
\* and a call that fails with Forbidden changes no category and no link
C9_DefaultRootsProtected ==
  /\ [](\A id \in DOMAIN categories :
          (categories[id].label \in DefaultLabels /\ categories[id].parentId = NULL)
            => /\ \A data \in UpdatePayloads :
                    CategoryUpdateOutcome(categories, categories[id].username, id, data)
                      = [status |-> "Forbidden", categories |-> categories]
               /\ CategoryRemoveOutcome(categories, categories[id].username, id)
                    = [status |-> "Forbidden", removed |-> {}])
  /\ [][result'.status = "Forbidden"
          => /\ categories' = categories
             /\ recipes_categories' = recipes_categories]_vars

\* a remove was refused on a default root that has a child category and a
\* linked recipe
C9_Witness ==
  /\ result.op = "Category.remove"
  /\ result.status = "Forbidden"
  /\ \E id \in DOMAIN categories :
       /\ categories[id].label \in DefaultLabels
       /\ categories[id].parentId = NULL
       /\ SubTree(categories, id) # {id}
       /\ \E l \in recipes_categories : l[2] = id

(***************************************************************************)
(* Properties of the failures of Category.create and Category.addRecipe    *)
(***************************************************************************)

\* C11: Category.create with a parentId that names no category raises
\* NotFound, with a parentId that names a category of another user it raises
\* Unauthorized, and in both cases no category is inserted
C11_CreateRejectsBadParent ==
  \A username \in Usernames, label \in InputLabels, parentId \in CategoryIdArgs :
    LET out == CategoryCreateOutcome(categories, nextCatId, username, label, parentId)
    IN /\ parentId \notin DOMAIN categories
            => /\ out.status = "NotFound"
               /\ out.categories = categories
       /\ (parentId \in DOMAIN categories /\ categories[parentId].username # username)
            => /\ out.status = "Unauthorized"
               /\ out.categories = categories

\* C12: Category.addRecipe fails with NotFound when the recipe or the
\* category is absent or owned by another user, with BadRequest (duplicate)
\* when the link is stored, and otherwise stores the link; a call that fails
\* leaves the links as they were and a call that succeeds adds exactly one
\* pair that was not stored
C12_AddRecipeChecksBothSides ==
  /\ [](\A username \in Usernames, categoryId \in CategoryIdArgs,
           recipeId \in (DOMAIN recipes) \cup {nextRecipeId} :
          LET out == CategoryAddRecipeOutcome(categories, recipes, recipes_categories,
                                              username, categoryId, recipeId)
              recipeOk == /\ recipeId \in DOMAIN recipes
                          /\ recipes[recipeId].username = username
              categoryOk == /\ categoryId \in DOMAIN categories
                            /\ categories[categoryId].username = username
              link == <<recipeId, categoryId>>
          IN out = IF ~(recipeOk /\ categoryOk)
                     THEN [status |-> "NotFound",
                           recipes_categories |-> recipes_categories]
                   ELSE IF link \in recipes_categories
                     THEN [status |-> "BadRequest",
                           recipes_categories |-> recipes_categories]
                   ELSE [status |-> "ok",
                         recipes_categories |-> recipes_categories \cup {link}])
  /\ [][result'.op = "Category.addRecipe"
          => IF result'.status = "ok"
               THEN \E link \in recipes_categories' \ recipes_categories :
                      /\ recipes_categories' = recipes_categories \cup {link}
                      /\ recipes'[link[1]].username = categories'[link[2]].username
               ELSE recipes_categories' = recipes_categories]_vars

\* an addRecipe was refused as a duplicate while the recipe has a link to a
\* category of its owner and a category of the other user exists unlinked
C12_Witness ==
  /\ result.op = "Category.addRecipe"
  /\ result.status = "BadRequest"
  /\ \E link \in recipes_categories :
       /\ recipes[link[1]].username = categories[link[2]].username
       /\ \E c \in DOMAIN categories :
            /\ categories[c].username # recipes[link[1]].username
            /\ <<link[1], c>> \notin recipes_categories

(***************************************************************************)
(* Properties of append                                                    *)
(***************************************************************************)

C15_FailedConversionKeepsOther ==
  [][(/\ result'.op = "Ingredient.update"
      /\ result'.info[2] # <<>>
      /\ result'.info[2][5] = Absent)
       => LET other == <<result'.id, OtherUnitType(result'.info[1].unitType)>>
          IN /\ result'.status # "ok"
             /\ other \in DOMAIN ingredient_measures'
             /\ ingredient_measures'[other] = ingredient_measures[other]]_vars

\* the us measure of the honey ingredient was set to 2 cup, the conversion
\* failed, the update ended with an error and the metric measure is 1 g as
\* before
C15_Witness ==
  /\ result.op = "Ingredient.update"
  /\ result.status # "ok"
  /\ result.info[2] = <<"honey", 2, "cup", "g", Absent>>
  /\ ingredient_measures[<<result.id, "us">>] = [amount |-> 2, unit |-> "cup"]
  /\ ingredient_measures[<<result.id, "metric">>] = [amount |-> 1, unit |-> "g"]

(***************************************************************************)
(* Properties of concurrent calls                                          *)
(***************************************************************************)

\* C16: when two toggleFavorite calls on the same recipe, run concurrently
\* in any interleaving, have both completed, one right after the other, the
\* flag of the recipe has the value it had before either: the value the
\* call that completed first had read
C16_ConcurrentTogglesRestore ==
  [][(/\ result'.op = "Recipe.toggleFavorite"
      /\ result'.status = "ok"
      /\ result.op = "Recipe.toggleFavorite"
      /\ result.status = "ok"
      /\ result.id = result'.id
      /\ \E p \in Calls : calls[p].op = "Recipe.toggleFavorite" /\ calls'[p] = IdleCall)
       => recipes'[result'.id].isFavorite = result.info[1]]_vars

\* C17: whatever the interleaving of two concurrent appends to a recipe, no
\* two instructions and no two ingredients of the recipe have the same
\* ordinal
C17_ConcurrentAppendsDistinctOrdinals ==
  /\ \A i, j \in DOMAIN instructions :
       (i # j /\ instructions[i].recipeId = instructions[j].recipeId)
         => instructions[i].ordinal # instructions[j].ordinal
  /\ \A i, j \in DOMAIN ingredients :
       (i # j /\ ingredients[i].recipeId = ingredients[j].recipeId)
         => ingredients[i].ordinal # ingredients[j].ordinal

\* C18: replaceAll is atomic: whenever the instructions of a recipe are
\* read, while a replaceAll runs or after it failed, their ordinals are
\* exactly 1..N, and when a replaceAll fails the recipe has the instructions
\* it had when the call started
C18_ReplaceAllAtomic ==
  /\ [](\A r \in DOMAIN recipes :
          OrdinalsDense(instructions, InstructionRows(instructions, r)))
  /\ [][\A p \in Calls :
          (/\ calls[p].op = "Instruction.update"
           /\ calls'[p] = IdleCall
           /\ result'.status # "ok")
            => /\ instructions' = instructions
               /\ InstructionRows(instructions', calls[p].recipeId) =
                    {calls[p].oldInstructions[k] :
                       k \in DOMAIN calls[p].oldInstructions}]_vars

(***************************************************************************)
(* Properties of Recipe.create and of the cascades                         *)
(***************************************************************************)

\* C19: a Recipe.create that fails after the insert of its recipe row leaves
\* no recipe row, instruction, ingredient, category or link it wrote
C19_RecipeCreateAllOrNothing ==
  [][(result'.op = "Recipe.create" /\ result'.status # "ok")
       => /\ recipes' = recipes
          /\ instructions' = instructions
          /\ ingredients' = ingredients
          /\ ingredient_measures' = ingredient_measures
          /\ categories' = categories
          /\ recipes_categories' = recipes_categories]_vars

\* C20: no stored row refers to a row that is not stored; a successful
\* Recipe.remove takes the recipe row away, and a successful Category.remove
\* takes away exactly the category, its descendants and their links
C20_NoDanglingReferences ==
  /\ [](/\ \A i \in DOMAIN instructions : instructions[i].recipeId \in DOMAIN recipes
        /\ \A i \in DOMAIN ingredients : ingredients[i].recipeId \in DOMAIN recipes
        /\ \A k \in DOMAIN ingredient_measures : k[1] \in DOMAIN ingredients
        /\ \A l \in recipes_categories :
             l[1] \in DOMAIN recipes /\ l[2] \in DOMAIN categories
        /\ \A c \in DOMAIN categories :
             categories[c].parentId = NULL \/ categories[c].parentId \in DOMAIN categories)
  /\ [][/\ (result'.op = "Recipe.remove" /\ result'.status = "ok")
            => /\ result'.id \in DOMAIN recipes
               /\ result'.id \notin DOMAIN recipes'
        /\ (result'.op = "Category.remove" /\ result'.status = "ok")
            => \E id \in DOMAIN categories :
                 /\ ~(categories[id].label \in DefaultLabels
                      /\ categories[id].parentId = NULL)
                 /\ DOMAIN categories' = (DOMAIN categories) \ SubTree(categories, id)
                 /\ recipes_categories' =
                      {l \in recipes_categories : l[2] \notin SubTree(categories, id)}]_vars

\* the only recipe, which had an instruction, two ingredients, measures and a
\* link to a category, was removed and none of these rows is left
C20_Witness ==
  /\ result.op = "Recipe.remove"
  /\ result.status = "ok"
  /\ nextRecipeId = 2
  /\ nextInstructionId = 2
  /\ nextIngredientId = 3
  /\ nextCatId > Len(UserSeq) * Len(defaultCategories) + 1
  /\ recipes = EmptyTable
  /\ instructions = EmptyTable
  /\ ingredients = EmptyTable
  /\ ingredient_measures = EmptyTable
  /\ recipes_categories = {}

(***************************************************************************)
(* Properties of the recipe calls on a recipe the caller does not own      *)
(***************************************************************************)

\* (username, recipeId) names no recipe of username
NotOwned(username, recipeId) ==
  recipeId \notin DOMAIN recipes \/ recipes[recipeId].username # username

\* get, remove and toggleFavorite of (username, recipeId) fail with NotFound
\* and store what was stored
GetRemoveToggleNotFound(username, recipeId) ==
  /\ RecipeGetOutcome(recipes, instructions, ingredients, username, recipeId).status
       = "NotFound"
  /\ LET out == RecipeRemoveOutcome(recipes, recipes_categories, instructions,
                                    ingredients, ingredient_measures, username, recipeId)
     IN /\ out.status = "NotFound"
        /\ out.recipes = recipes
        /\ out.instructions = instructions
        /\ out.ingredients = ingredients
        /\ out.ingredient_measures = ingredient_measures
        /\ out.recipes_categories = recipes_categories
  /\ LET out == RecipeToggleFavoriteOutcome(recipes, username, recipeId)
     IN out.status = "NotFound" /\ out.recipes = recipes

\* an update of (username, recipeId) with data fails with status and stores
\* what was stored
UpdateFailsWith(username, recipeId, data, status) ==
  \A oldInstructions \in OrderedIds(instructions, recipeId),
     pick \in Ingredient_updateAmountsPicks(ingredient_amounts, data.ingredients.entries) :
    LET out == RecipeUpdateOutcome(recipes, instructions, nextInstructionId,
                                   ingredient_amounts, username, recipeId, data,
                                   oldInstructions, pick)
    IN /\ out.status = status
       /\ out.recipes = recipes
       /\ out.instructions = instructions
       /\ out.ingredient_amounts = ingredient_amounts

\* C21 as stated: Recipe.get, Recipe.update, Recipe.remove and
\* Recipe.toggleFavorite called with (owner, id) where no recipe with that id
\* exists or the recipe belongs to a different owner fail with NotFound and
\* change no stored recipe, instruction, ingredient or link
C21_UnownedRecipeNotFound ==
  \A username \in Usernames, recipeId \in (DOMAIN recipes) \cup {MissingRecipeId} :
    NotOwned(username, recipeId) =>
      /\ GetRemoveToggleNotFound(username, recipeId)
      /\ \A data \in RecipeUpdates : UpdateFailsWith(username, recipeId, data, "NotFound")

\* C21 amended: as above, but Recipe.update with a payload that has no key at
\* all fails with BadRequest, whether or not the recipe is the caller's, and
\* with NotFound for every other payload; a call that ended with NotFound
\* left the recipes, instructions, ingredients and links as they were
C21_UnownedRecipeNotFoundOrNoData ==
  /\ [](\A username \in Usernames, recipeId \in (DOMAIN recipes) \cup {MissingRecipeId} :
         NotOwned(username, recipeId) =>
           /\ GetRemoveToggleNotFound(username, recipeId)
           /\ \A data \in RecipeUpdates :
                UpdateFailsWith(username, recipeId, data,
                                IF /\ data.title = Undefined
                                   /\ ~data.instructions.given
                                   /\ ~data.ingredients.given
                                  THEN "BadRequest" ELSE "NotFound"))
  /\ [][(/\ result'.op \in {"Recipe.get", "Recipe.update", "Recipe.remove",
                            "Recipe.toggleFavorite"}
         /\ result'.status = "NotFound")
        => UNCHANGED <<recipes, instructions, ingredients, ingredient_measures,
                       ingredient_amounts, recipes_categories>>]_vars

\* u1 called Recipe.update with a step on the stored recipe of u2, or the
\* other way round, and the call ended with NotFound
C21_Witness ==
  /\ result.op = "Recipe.update"
  /\ result.status = "NotFound"
  /\ result.id \in DOMAIN recipes
  /\ recipes[result.id].username # result.info.username
  /\ result.info.data.instructions.given
  /\ InstructionRows(instructions, result.id) # {}

(***************************************************************************)
(* Properties of the categories Recipe.create files a recipe under         *)
(***************************************************************************)

\* the categories of cats with the given label below a default root of
\* owner with the name of the i-th list
LabelledUnderRoot(cats, owner, i, label) ==
  {c \in DOMAIN cats :
     /\ cats[c].label = label
     /\ cats[c].parentId \in DefaultRootRows(cats, owner, defaultCategories[i])}

ReplaceAllByOrdinal ==
  LET r == result'.id
      items == result'.info
      N == Len(items)
      old == InstructionRows(instructions, r)
      M == Cardinality(old)
      new == InstructionRows(instructions', r)
      kept == 1 .. (IF M < N THEN M ELSE N)
  IN /\ \A i \in old :
          instructions[i].ordinal \in kept
            => /\ i \in new
               /\ instructions'[i] =
                    [instructions[i] EXCEPT !.step = items[instructions[i].ordinal]]
     /\ old \ new = {i \in old : instructions[i].ordinal \in (N + 1) .. M}
     /\ Cardinality(new \ old) = IF N > M THEN N - M ELSE 0
     /\ \A k \in (M + 1) .. N :
          \E i \in new \ old : /\ instructions'[i].ordinal = k
                               /\ instructions'[i].step = items[k]
     /\ \A i \in (DOMAIN instructions) \ old :
          i \in DOMAIN instructions' /\ instructions'[i] = instructions[i]

\* C23: replaceAll with N new items against M existing instruction rows keeps
\* the ids of the rows at ordinals 1..min(M,N) and changes only their step;
\* when N < M it deletes exactly the rows with ordinals N+1..M; when N > M it
\* creates exactly N-M new rows with ordinals M+1..N holding the last N-M
\* items in order
C23_ReplaceAllKeepsIdentity ==
  [][(result'.op = "Instruction.update" /\ result'.status = "ok")
       => ReplaceAllByOrdinal]_vars

\* C23 for a recipe whose M rows carry the ordinals 1..M: the same rows are
\* kept, deleted and created
C23_ReplaceAllKeepsIdentityWhenDense ==
  [][(/\ result'.op = "Instruction.update"
      /\ result'.status = "ok"
      /\ OrdinalsDense(instructions, InstructionRows(instructions, result'.id)))
       => ReplaceAllByOrdinal]_vars

\* a replaceAll with one item has left the first row with the new step and
\* no second row: two ids were allocated, the row with id 1 is the only one
C23_Witness ==
  /\ result.op = "Instruction.update"
  /\ result.status = "ok"
  /\ result.info = <<"bake">>
  /\ nextInstructionId = 3
  /\ InstructionRows(instructions, result.id) = {1}
  /\ instructions[1].ordinal = 1
  /\ instructions[1].step = "bake"

(***************************************************************************)
(* Properties of Category.update and of the parent links                   *)
(***************************************************************************)

\* the label and the parent the category has once the payload is applied: the
\* supplied value where the key is given (an explicit null parent included),
\* the current value otherwise
EffectiveLabel(cats, id, data) ==
  IF data.label # Undefined THEN data.label ELSE cats[id].label

EffectiveParent(cats, id, data) ==
  IF data.parentId # Absent THEN data.parentId ELSE cats[id].parentId

\* a category other than id has that label under that parent (at root level:
\* among the roots of the owner of id)
OtherSiblingHasLabel(cats, id, label, parentId) ==
  \E c \in (DOMAIN cats) \ {id} :
    /\ cats[c].label = label
    /\ cats[c].parentId = parentId
    /\ parentId = NULL => cats[c].username = cats[id].username

\* the calls C24 is about: a stored category of the caller that is no default
\* root, a payload with at least one key, and an effective parent that is null
\* or a stored category other than id
UpdateInScope(cats, username, id, data) ==
  /\ id \in DOMAIN cats
  /\ cats[id].username = username
  /\ ~IsDefaultRoot(cats, id)
  /\ data.label # Undefined \/ data.parentId # Absent
  /\ LET p == EffectiveParent(cats, id, data)
     IN p = NULL \/ (p \in DOMAIN cats /\ p # id)

\* C24: Category.update on a non-canonical category succeeds exactly when no
\* category other than id itself has the effective post-update label under
\* the effective post-update parent, and fails with the duplicate-label error
\* (BadRequest) otherwise
C24_UpdateChecksEffectiveSiblings ==
  \A username \in Usernames, id \in CategoryIdArgs, data \in UpdatePayloads :
    UpdateInScope(categories, username, id, data)
      => LET out == CategoryUpdateOutcome(categories, username, id, data)
             duplicate == OtherSiblingHasLabel(categories, id,
                                               EffectiveLabel(categories, id, data),
                                               EffectiveParent(categories, id, data))
         IN /\ out.status = "ok" <=> ~duplicate
            /\ duplicate => out.status = "BadRequest"


\* C25: after any sequence of Category.create and Category.update calls,
\* every category with a non-null parentId has a parent that exists and has
\* the same owner as the category
C25_ParentHasSameOwner ==
  \A c \in DOMAIN categories :
    categories[c].parentId # NULL
      => /\ categories[c].parentId \in DOMAIN categories
         /\ categories[categories[c].parentId].username = categories[c].username


\* the position of the node of category c in a preorder list, 0 if absent
PositionOf(nodes, c) ==
  IF \E k \in DOMAIN nodes : nodes[k].id = c
    THEN CHOOSE k \in DOMAIN nodes : nodes[k].id = c
    ELSE 0

\* C26: getCategorySubTree(owner, id) terminates in every reachable category
\* state and returns the node with each of its descendants exactly once,
\* nested under its parent in preorder; it fails with NotFound when id is
\* absent or owned by another user
C26_SubTreeTerminatesInPreorder ==
  result.op = "Category.getCategorySubTree"
    => LET id == result.id
           nodes == result.info.nodes
       IN IF id \notin DOMAIN categories
             \/ categories[id].username # result.info.username
            THEN result.status = "NotFound"
          ELSE /\ result.status = "ok"
               /\ {nodes[k].id : k \in DOMAIN nodes} = CascadeClosure(categories, {id})
               /\ \A j, k \in DOMAIN nodes : nodes[j].id = nodes[k].id => j = k
               /\ nodes[1].id = id
               /\ \A k \in 2 .. Len(nodes) :
                    /\ nodes[k].under = categories[nodes[k].id].parentId
                    /\ PositionOf(nodes, nodes[k].under) \in 1 .. (k - 1)


(***************************************************************************)
(* Properties of remove(id)                                                *)
(***************************************************************************)

\* table2 is table without the row id, every other row as it was
OnlyRowDeleted(table, table2, id) ==
  /\ DOMAIN table2 = (DOMAIN table) \ {id}
  /\ \A j \in DOMAIN table2 : table2[j] = table[j]

\* the measures of every ingredient other than id are in measures2 as they
\* are in measures
OtherMeasuresKept(measures, measures2, id) ==
  /\ {k \in DOMAIN measures2 : k[1] # id} = {k \in DOMAIN measures : k[1] # id}
  /\ \A k \in DOMAIN measures2 : k[1] # id => measures2[k] = measures[k]

\* what Instruction.remove and Ingredient.remove answer for every id in the
\* current state: the row id alone goes, or NotFound and nothing changes
RemoveDeletesThatRow ==
  /\ \A id \in (DOMAIN instructions) \cup {MaxInstructionId + 1} :
       LET out == InstructionRemoveOutcome(instructions, id)
       IN IF id \in DOMAIN instructions
            THEN out.status = "ok" /\ OnlyRowDeleted(instructions, out.instructions, id)
          ELSE out.status = "NotFound" /\ out.instructions = instructions
  /\ \A id \in (DOMAIN ingredients) \cup {MissingIngredientId} :
       LET out == IngredientRemoveOutcome(ingredients, ingredient_measures, id)
       IN IF id \in DOMAIN ingredients
            THEN /\ out.status = "ok"
                 /\ OnlyRowDeleted(ingredients, out.ingredients, id)
                 /\ OtherMeasuresKept(ingredient_measures, out.ingredient_measures, id)
          ELSE /\ out.status = "NotFound"
               /\ out.ingredients = ingredients
               /\ out.ingredient_measures = ingredient_measures

\* a remove call has deleted one row and left every other row as it was, or
\* failed with NotFound and left all rows as they were
RemoveStepKeepsSiblings ==
  /\ result'.op = "Instruction.remove"
       => /\ UNCHANGED <<ingredients, ingredient_measures>>
          /\ IF result'.status = "ok"
               THEN \E id \in DOMAIN instructions :
                      OnlyRowDeleted(instructions, instructions', id)
             ELSE result'.status = "NotFound" /\ UNCHANGED instructions
  /\ result'.op = "Ingredient.remove"
       => /\ UNCHANGED instructions
          /\ IF result'.status = "ok"
               THEN \E id \in DOMAIN ingredients :
                      /\ OnlyRowDeleted(ingredients, ingredients', id)
                      /\ OtherMeasuresKept(ingredient_measures, ingredient_measures', id)
             ELSE result'.status = "NotFound"
                  /\ UNCHANGED <<ingredients, ingredient_measures>>

\* C27: remove(id) on an instruction or ingredient deletes exactly that row
\* and leaves the id, ordinal and content of every other row of the same
\* recipe unchanged (siblings are not renumbered); when no row has that id it
\* fails with NotFound and changes nothing
C27_RemoveDeletesOneRow ==
  []RemoveDeletesThatRow /\ [][RemoveStepKeepsSiblings]_vars

\* an instruction was removed and a sibling still has ordinal 2 with no row
\* at ordinal 1: the sibling was not renumbered
C27_Witness ==
  /\ result.op = "Instruction.remove"
  /\ result.status = "ok"
  /\ \E i \in InstructionRows(instructions, result.id) : instructions[i].ordinal = 2
  /\ \A i \in InstructionRows(instructions, result.id) : instructions[i].ordinal # 1


(***************************************************************************)
(* Properties of the ingredient rows an update writes                      *)
(***************************************************************************)

\* C28: Recipe.update(owner, recipeId, {ingredients: [...]}) changes only
\* ingredient rows that belong to recipe recipeId: an entry that names the id
\* of an ingredient of a different recipe leaves that ingredient's amounts and
\* fields unchanged
C28_UpdateWritesOwnIngredientsOnly ==
  [][result'.op = "Recipe.update"
       => \A i \in DOMAIN ingredients :
            ingredients[i].recipeId # result'.id
              => /\ i \in DOMAIN ingredients'
                 /\ ingredients'[i] = ingredients[i]
                 /\ ingredient_amounts'[i] = ingredient_amounts[i]]_vars


\* C29: when a single-ingredient update that carries both non-measure fields
\* and a measure fails with BadRequest (unit type missing) or NotFound
\* (measure row missing), the ingredient's label, baseFood and ordinal are the
\* same after the call as before it
C29_FailedUpdateKeepsFields ==
  [][(/\ result'.op = "Ingredient.update"
      /\ result'.status \in {"BadRequest", "NotFound"}
      /\ result'.id \in DOMAIN ingredients)
       => /\ result'.id \in DOMAIN ingredients'
          /\ ingredients'[result'.id].label = ingredients[result'.id].label
          /\ ingredients'[result'.id].baseFood = ingredients[result'.id].baseFood
          /\ ingredients'[result'.id].ordinal = ingredients[result'.id].ordinal]_vars


(***************************************************************************)
(* Properties of concurrent Category.create calls                          *)
(***************************************************************************)

\* the categories of that owner with that label under that parent
StoredWith(cats, username, label, parentId) ==
  {c \in DOMAIN cats : /\ cats[c].username = username
                       /\ cats[c].label = label
                       /\ cats[c].parentId = parentId}

\* C30: under any interleaving of two concurrent Category.create calls with
\* the same owner, parentId and label, exactly one category with that label
\* ends up stored under that parent and the other call fails with an error:
\* a create that returns its category leaves it the only one of its owner
\* with its label under its parent
C30_ConcurrentCreateStoresOne ==
  [][(/\ result'.op = "Category.create"
      /\ result'.status = "ok"
      /\ result'.info.returned = "category")
       => Cardinality(StoredWith(categories', result'.info.username,
                                 result'.info.label, result'.info.parentId)) = 1]_vars

====
